---- MODULE Spec2Model ----
(***************************************************************************)
(* Airgap comparison dashboard: key normalisation and reconciliation       *)
(* (utils/parseExcel.ts), tidy transform (utils/extractAirgap.ts) and the  *)
(* rejection filter of the scatter charts                                  *)
(* (components/AdvancedPartScatterChart.tsx, PartScatterChart.tsx).        *)
(*                                                                         *)
(* Strings are sequences of one-character strings, so that trim, the       *)
(* all-digits test and the Number/String round trip are computed.          *)
(* Numbers read from cells are fixed-point integers in hundredths          *)
(* (0.05 is 5, 1000 is 100000).                                            *)
(***************************************************************************)
EXTENDS Integers, Sequences, FiniteSets, TLC

VARIABLES
    serialInput,        \* normalizeSerial: the string handed to the helper
    normalized,         \* normalizeSerial: results of successive applications
    techformData,       \* probe records (TechformData[])
    eclipseData,        \* fixture records (EclipseData[])
    merged,             \* mergeData result .merged, later with pre/postToggle
    unmatchedCount,     \* mergeData result .unmatchedCount
    airgapPoints,       \* tidy points (AirgapPoint[])
    pc,                 \* position of the pipeline
    data,               \* chart prop: AirgapPoint[]
    part,               \* chart prop: part code of the chart
    currentState,       \* chart state: 'pre' | 'post'
    filterThresholds,   \* chart state: position -> threshold text
    comparisonFilters,  \* chart state: list of comparison rules
    rawAirgapFiles,     \* App state: selected probe files
    checkedFixtureFiles,\* App state: selected fixture files
    error,              \* App state: error message or "null"
    worksheet,          \* fixture sheet: cell address <<c, r>> -> cell text
    nestPositions,      \* findNestPositions result, in insertion order
    headerRow,          \* parseCheckedFixtureSheet: the selected header row
    results,            \* parseCheckedFixtureSheet: the records of the sheet
    rawRows,            \* probe file: the data rows, part and serial cells
    loading,            \* App state: the loading flag
    inFlight            \* App: the parseFiles runs suspended at an await

vars == <<serialInput, normalized, techformData, eclipseData, merged,
          unmatchedCount, airgapPoints, pc, data, part, currentState,
          filterThresholds, comparisonFilters, rawAirgapFiles,
          checkedFixtureFiles, error, worksheet, nestPositions, headerRow,
          results, rawRows, loading, inFlight>>

appVars == <<rawAirgapFiles, checkedFixtureFiles, error, inFlight>>
sheetVars == <<worksheet, nestPositions, headerRow, results, rawRows>>
normVars == <<serialInput, normalized>>
pipeVars == <<techformData, eclipseData, merged, unmatchedCount, airgapPoints, pc,
              loading>>
chartVars == <<data, part, currentState, filterThresholds, comparisonFilters>>

----------------------------------------------------------------------------
(* Idle values of the parts a specification does not exercise *)

IdleNormalize == serialInput = <<>> /\ normalized = <<>>

IdlePipeline ==
    /\ techformData = <<>>
    /\ eclipseData = <<>>
    /\ merged = <<>>
    /\ unmatchedCount = 0
    /\ airgapPoints = <<>>
    /\ pc = "idle"
    /\ loading = FALSE

IdleApp ==
    /\ rawAirgapFiles = <<>>
    /\ checkedFixtureFiles = <<>>
    /\ error = "null"
    /\ inFlight = <<>>

IdleSheet ==
    /\ worksheet = <<>>
    /\ nestPositions = <<>>
    /\ headerRow = 0
    /\ results = <<>>
    /\ rawRows = <<>>

IdleChart ==
    /\ data = <<>>
    /\ part = <<>>
    /\ currentState = "pre"
    /\ filterThresholds = <<>>
    /\ comparisonFilters = <<>>

----------------------------------------------------------------------------
(* Bounds *)

MaxSerialLen == 3

\* probe records + fixture records handed to mergeData
MaxRecords == 3

\* fixture sheets that report the probe row of the tidy transform
MaxSheets == 2

\* points of the chart's part and state
MaxPoints == 3

\* comparison rules of a chart
MaxRules == 1

\* probe rows handed to the probe-only conversion
MaxProbeRows == 2

\* fixture files selected for one run
MaxFiles == 2

\* cells outside the marker row that hold marker-like text
MaxMarkers == 2

\* populated data rows of a fixture sheet
MaxDataRows == 1

\* data rows below a marker row in row 20
MaxLateRows == 4

\* parseFiles runs suspended at an await
MaxInFlight == 2

----------------------------------------------------------------------------
(* Strings *)

SeqsUpTo(S, n) == UNION {[1..k -> S] : k \in 0..n}

DigitChars == <<"0", "1", "2", "3", "4", "5", "6", "7", "8", "9">>

IsDigit(c) == \E i \in 1..10 : DigitChars[i] = c

IsSpace(c) == c = " "

RECURSIVE TrimStart(_)
TrimStart(s) ==
    IF s # <<>> /\ IsSpace(Head(s)) THEN TrimStart(Tail(s)) ELSE s

RECURSIVE TrimEnd(_)
TrimEnd(s) ==
    IF s # <<>> /\ IsSpace(s[Len(s)]) THEN TrimEnd(SubSeq(s, 1, Len(s) - 1)) ELSE s

\* String.prototype.trim
Trim(s) == TrimEnd(TrimStart(s))

\* /^\d+$/.test(str)
AllDigits(str) == str # <<>> /\ \A i \in 1..Len(str) : IsDigit(str[i])

\* Number(str) of an all-digit string
RECURSIVE DigitsToNumber(_)
DigitsToNumber(str) ==
    IF str = <<>> THEN 0
    ELSE LET digitValue == (CHOOSE i \in 1..10 : DigitChars[i] = str[Len(str)]) - 1
         IN  10 * DigitsToNumber(SubSeq(str, 1, Len(str) - 1)) + digitValue

\* String(n) of a non-negative integer below 10^21
RECURSIVE NumberToString(_)
NumberToString(n) ==
    IF n < 10 THEN <<DigitChars[n + 1]>>
    ELSE NumberToString(n \div 10) \o <<DigitChars[(n % 10) + 1]>>

----------------------------------------------------------------------------
(* Key normalisation: mergeData's helper normalizeSerial *)

normalizeSerial_DigitsBeforeTrim(serial) ==
    IF AllDigits(serial) THEN NumberToString(DigitsToNumber(serial)) ELSE Trim(serial)

normalizeSerial_TrimOnly(serial) == Trim(serial)

normalizeSerial(serial) ==
    LET str == Trim(serial) IN
    IF AllDigits(str) THEN NumberToString(DigitsToNumber(str)) ELSE str

InitNormalize ==
    LET SerialAlphabet == {"0", "7", " ", "A"}
        SerialStrings ==
            SeqsUpTo(SerialAlphabet, MaxSerialLen) \cup {<<" ", "A", "1", " ">>}
    IN  /\ serialInput \in SerialStrings
        /\ normalized = <<>>
        /\ IdlePipeline
        /\ IdleChart
        /\ IdleApp
        /\ IdleSheet

\* One more application of normalizeSerial to the previous result.
NormalizeSerial ==
    /\ Len(normalized) < 2
    /\ normalized' = Append(normalized,
            normalizeSerial(IF normalized = <<>> THEN serialInput
                            ELSE normalized[Len(normalized)]))
    /\ UNCHANGED <<sheetVars, serialInput, pipeVars, chartVars, appVars>>

----------------------------------------------------------------------------
(* Cells and records *)

\* A cell value or object field: null/undefined, a number (hundredths),
\* the empty string, or a non-numeric text.
Null == [k |-> "null", v |-> 0]
Num(n) == [k |-> "num", v |-> n]
Blank == [k |-> "blank", v |-> 0]
Text == [k |-> "text", v |-> 0]

\* A whole number n as a fixed-point value.
Whole(n) == n * 100

\* Number.isInteger
IsInteger(x) == x % 100 = 0

Abs(x) == IF x < 0 THEN -x ELSE x

Max(S) == CHOOSE x \in S : \A y \in S : y <= x

\* constants.ts
VALID_PARTS ==
    << <<"F","R","U">>, <<"F","R","L">>, <<"F","L","U">>, <<"F","L","L">>,
       <<"R","R","U">>, <<"R","R","L">>, <<"R","L","U">>, <<"R","L","L">> >>

PRE_TOGGLE_COLS == <<"P", "Q", "R", "S">>

POST_TOGGLE_COLS == <<"T", "U", "V", "W">>

Range(f) == {f[i] : i \in DOMAIN f}

\* Array.prototype.includes
Includes(arr, x) == \E i \in 1..Len(arr) : arr[i] = x

\* Object spread { ...base, ...over }: the keys of both, over's value on conflict
Spread(base, over) ==
    [key \in (DOMAIN base) \cup (DOMAIN over) |->
        IF key \in DOMAIN over THEN over[key] ELSE base[key]]

\* (item as any)[col]: undefined when the key is absent
Field(item, col) == IF col \in DOMAIN item THEN item[col] ELSE Null

\* TechformData as parseTechformFile builds it
TechformRecord(serial, prt, cols) ==
    Spread([serial |-> serial, part |-> prt, rawRow |-> "row"], cols)

\* EclipseData: the fields the fixture parsers set (parseCheckedFixtureSheet
\* canonicalises a numeric serial, parseEclipseFile keeps the cell's text)
EclipseRecord(serial, prt, sourceFile, sheetName, fixtureMeasurement) ==
    [serial |-> serial, part |-> prt, sourceFile |-> sourceFile,
     sheetName |-> sheetName, rawRow |-> "undefined",
     fixtureMeasurement |-> fixtureMeasurement]

----------------------------------------------------------------------------
(* Reconciliation: mergeData *)

\* `${normalizedSerial}|${item.part}`
JoinKey(normalizedSerial, prt) == normalizedSerial \o <<"|">> \o prt

RECURSIVE BuildTechformMap_KeepFirst(_, _, _)
BuildTechformMap_KeepFirst(td, i, map) ==
    IF i > Len(td) THEN map
    ELSE LET normalizedSerial == normalizeSerial(td[i].serial) IN
         IF normalizedSerial # <<>>
         THEN BuildTechformMap_KeepFirst(td, i + 1,
                  Spread([key \in {JoinKey(normalizedSerial, td[i].part)} |-> td[i]], map))
         ELSE BuildTechformMap_KeepFirst(td, i + 1, map)

\* The loop filling techformMapBySerialPart: Map.set in input order
RECURSIVE BuildTechformMap(_, _, _)
BuildTechformMap(td, i, map) ==
    IF i > Len(td) THEN map
    ELSE LET normalizedSerial == normalizeSerial(td[i].serial) IN
         IF normalizedSerial # <<>>
         THEN BuildTechformMap(td, i + 1,
                  Spread(map, [key \in {JoinKey(normalizedSerial, td[i].part)} |-> td[i]]))
         ELSE BuildTechformMap(td, i + 1, map)

techformMapBySerialPart(td) == BuildTechformMap(td, 1, <<>>)

\* The merged object literal of mergeData
MergedItem(techformItem, eclipseItem) ==
    Spread(Spread(
        [serial |-> techformItem.serial,
         part |-> techformItem.part,
         sourceFile |-> eclipseItem.sourceFile,
         sheetName |-> eclipseItem.sheetName,
         preToggle |-> <<>>,
         postToggle |-> <<>>,
         rawRow |-> IF techformItem.rawRow # "undefined"
                    THEN techformItem.rawRow ELSE eclipseItem.rawRow],
        techformItem), eclipseItem)

IsValidPart_Any(prt) == TRUE

\* VALID_PARTS.includes(eclipseItem.part)
IsValidPart(prt) == Includes(VALID_PARTS, prt)

\* The loop over eclipseData; acc = [merged, exactMatchCount]
RECURSIVE MergeLoop(_, _, _, _)
MergeLoop(ed, map, i, acc) ==
    IF i > Len(ed) THEN acc
    ELSE LET eclipseItem == ed[i]
             normalizedEclipseSerial == normalizeSerial(eclipseItem.serial)
             exactKey == JoinKey(normalizedEclipseSerial, eclipseItem.part)
         IN  IF ~IsValidPart(eclipseItem.part)
             THEN MergeLoop(ed, map, i + 1, acc)
             ELSE IF normalizedEclipseSerial = <<>>
             THEN MergeLoop(ed, map, i + 1, acc)
             ELSE IF exactKey \in DOMAIN map
             THEN MergeLoop(ed, map, i + 1,
                    [merged |-> Append(acc.merged, MergedItem(map[exactKey], eclipseItem)),
                     exactMatchCount |-> acc.exactMatchCount + 1])
             ELSE MergeLoop(ed, map, i + 1, acc)

mergeData(td, ed) ==
    LET res == MergeLoop(ed, techformMapBySerialPart(td), 1,
                         [merged |-> <<>>, exactMatchCount |-> 0])
    IN  [merged |-> res.merged, unmatchedCount |-> Len(td) - res.exactMatchCount]

----------------------------------------------------------------------------
(* Tidy transform: extractAirgapValues, toTidyFormat *)

\* The per-column branch of extractAirgapValues
ExtractCell(value) ==
    IF value.k \in {"null", "blank"} THEN Null
    ELSE IF value.k = "text" THEN Null
    ELSE IF IsInteger(value.v) /\ value.v >= Whole(1000) THEN Null
    ELSE Num(value.v)

extractAirgapValues(mergedData) ==
    IF Len(mergedData) = 0 THEN mergedData
    ELSE [i \in 1..Len(mergedData) |->
            Spread(mergedData[i],
                [preToggle |-> [c \in Range(PRE_TOGGLE_COLS) |->
                                    ExtractCell(Field(mergedData[i], c))],
                 postToggle |-> [c \in Range(POST_TOGGLE_COLS) |->
                                    ExtractCell(Field(mergedData[i], c))]])]

\* Object.keys(toggle).filter(col => toggle[col] !== null), in insertion order
NonNullCols_Truthy(toggle, cols) ==
    SelectSeq(cols, LAMBDA c : c \in DOMAIN toggle /\ toggle[c] # Null /\ toggle[c].v # 0)

RECURSIVE NonNullCols(_, _)
NonNullCols(toggle, cols) ==
    IF cols = <<>> THEN <<>>
    ELSE (IF Head(cols) \in DOMAIN toggle /\ toggle[Head(cols)] # Null
          THEN <<Head(cols)>> ELSE <<>>) \o NonNullCols(toggle, Tail(cols))

ItemPoints(item, toggle, cols, state) ==
    LET present == NonNullCols(toggle, cols) IN
    [j \in 1..Len(present) |->
        [part |-> item.part,
         serial |-> item.serial,
         position |-> present[j],
         state |-> state,
         value |-> toggle[present[j]].v,
         measurement |-> Field(item, "fixtureMeasurement"),
         sourceFile |-> item.sourceFile,
         sheetName |-> item.sheetName]]

RECURSIVE toTidyFormat(_)
toTidyFormat(mergedData) ==
    IF mergedData = <<>> THEN <<>>
    ELSE LET item == Head(mergedData) IN
         ItemPoints(item, item.preToggle, PRE_TOGGLE_COLS, "pre")
         \o ItemPoints(item, item.postToggle, POST_TOGGLE_COLS, "post")
         \o toTidyFormat(Tail(mergedData))

----------------------------------------------------------------------------
(* The pipeline steps of parseFiles that reconcile and transform *)

MergeData ==
    /\ pc = "parsed"
    /\ LET mergeResult == mergeData(techformData, eclipseData) IN
       /\ merged' = mergeResult.merged
       /\ unmatchedCount' = mergeResult.unmatchedCount
    /\ pc' = "merged"
    /\ UNCHANGED <<sheetVars, techformData, eclipseData, airgapPoints, loading, normVars,
                   chartVars, appVars>>

ExtractAirgapValues ==
    /\ pc = "merged"
    /\ merged' = extractAirgapValues(merged)
    /\ pc' = "extracted"
    /\ UNCHANGED <<sheetVars, techformData, eclipseData, unmatchedCount, airgapPoints,
                   loading, normVars, chartVars, appVars>>

ToTidyFormat ==
    /\ pc = "extracted"
    /\ airgapPoints' = toTidyFormat(merged)
    /\ pc' = "tidy"
    /\ UNCHANGED <<sheetVars, techformData, eclipseData, merged, unmatchedCount,
                   loading, normVars, chartVars, appVars>>

----------------------------------------------------------------------------
(* Inputs of the reconciliation *)

RRL == <<"R", "R", "L">>

Serial123 == <<"1", "2", "3">>

Serial000123 == <<"0", "0", "0", "1", "2", "3">>

UnknownPart == <<"X", "X">>

NoCols == [c \in Range(PRE_TOGGLE_COLS) \cup Range(POST_TOGGLE_COLS) |-> Null]

ColsWithP(cell) == [NoCols EXCEPT !["P"] = cell]

InitMerge ==
    LET MergeProbeRecords ==
            {TechformRecord(s, p, ColsWithP(c)) :
                s \in {Serial123, Serial000123, <<"A">>},
                p \in {RRL, UnknownPart},
                c \in {Num(5), Null}}
        MergeFixtureRecords ==
            {EclipseRecord(s, p, "fixture.xlsx", sh, IF sh = "S1" THEN Num(2) ELSE Null) :
                s \in {Serial123, Serial000123, <<" ">>},
                p \in {RRL, UnknownPart},
                sh \in {"S1", "S2"}}
    IN  /\ \E n \in 0..MaxRecords : \E m \in 0..(MaxRecords - n) :
              /\ techformData \in [1..n -> MergeProbeRecords]
              /\ eclipseData \in [1..m -> MergeFixtureRecords]
        /\ merged = <<>>
        /\ unmatchedCount = 0
        /\ airgapPoints = <<>>
        /\ pc = "parsed"
        /\ loading = TRUE
        /\ IdleNormalize
        /\ IdleChart
        /\ IdleApp
        /\ IdleSheet

(* Rejection filter of the scatter chart: the render of                    *)
(* AdvancedPartScatterChart as functions of its props and state.           *)
(* PartScatterChart is the same code without the comparison rules.         *)

\* Column labels in the order of Array.prototype.sort
PositionOrder == <<"N", "O", "P", "Q", "R", "S", "T", "U", "V", "W">>

\* data.filter(p => p.part === part && p.state === currentState && p.value !== null)
allDataForPart ==
    SelectSeq(data, LAMBDA p : p.part = part /\ p.state = currentState)

\* [...new Set(allDataForPart.map(p => p.position))].sort()
allPositions ==
    SelectSeq(PositionOrder,
              LAMBDA c : \E i \in 1..Len(allDataForPart) : allDataForPart[i].position = c)

\* keys of the serialGroups Map
GroupSerials == {allDataForPart[i].serial : i \in 1..Len(allDataForPart)}

\* serialGroups.get(serial): the unit's points in input order
serialGroups(serial) == SelectSeq(allDataForPart, LAMBDA p : p.serial = serial)

\* the serialGroups keys in insertion order
RECURSIVE SerialOrder(_, _)
SerialOrder(points, seen) ==
    IF points = <<>> THEN <<>>
    ELSE IF Head(points).serial \in seen THEN SerialOrder(Tail(points), seen)
    ELSE <<Head(points).serial>>
         \o SerialOrder(Tail(points), seen \cup {Head(points).serial})

\* points.find(p => p.position === position): <<>> or the first such point
FindPoint(points, position) ==
    LET hits == SelectSeq(points, LAMBDA p : p.position = position) IN
    IF hits = <<>> THEN <<>> ELSE <<Head(hits)>>

\* the longest prefix of digits
RECURSIVE DigitPrefix(_)
DigitPrefix(str) ==
    IF str # <<>> /\ IsDigit(Head(str)) THEN <<Head(str)>> \o DigitPrefix(Tail(str))
    ELSE <<>>

StartsWith(str, prefix) ==
    Len(str) >= Len(prefix) /\ SubSeq(str, 1, Len(prefix)) = prefix

RECURSIVE Pow10(_)
Pow10(n) == IF n = 0 THEN 1 ELSE 10 * Pow10(n - 1)

\* parseFloat of a trimmed string without exponent: sign, digits, '.', digits;
\* the value is (neg ? -1 : 1) * num / den
parseFloat(str) ==
    LET neg == str # <<>> /\ Head(str) = "-"
        unsigned == IF str # <<>> /\ Head(str) \in {"-", "+"} THEN Tail(str) ELSE str
        intDigits == DigitPrefix(unsigned)
        rest == SubSeq(unsigned, Len(intDigits) + 1, Len(unsigned))
        fracDigits == IF rest # <<>> /\ Head(rest) = "." THEN DigitPrefix(Tail(rest))
                      ELSE <<>>
    IN  IF intDigits = <<>> /\ fracDigits = <<>>
        THEN [nan |-> TRUE, neg |-> FALSE, num |-> 0, den |-> 1]
        ELSE [nan |-> FALSE, neg |-> neg,
              num |-> DigitsToNumber(intDigits \o fracDigits),
              den |-> Pow10(Len(fracDigits))]

NoThreshold == [valid |-> FALSE, num |-> 0, den |-> 1]

Undefined == [defined |-> FALSE, text |-> <<>>]

Defined(text) == [defined |-> TRUE, text |-> text]

parseThreshold_ZeroRejects(threshold) ==
    IF ~threshold.defined THEN NoThreshold
    ELSE LET f == parseFloat(Trim(threshold.text)) IN
         IF f.nan \/ f.neg THEN NoThreshold
         ELSE [valid |-> TRUE, num |-> f.num, den |-> f.den]

\* parseThreshold: the threshold as num/den, or no threshold
parseThreshold(threshold) ==
    IF ~threshold.defined THEN NoThreshold
    ELSE LET thresholdStr == Trim(threshold.text) IN
         IF thresholdStr \in {<<>>, <<"0">>, <<"0", ".", "0">>, <<"0", ".", "0", "0">>}
         THEN NoThreshold
         ELSE LET dotted == IF StartsWith(thresholdStr, <<".">>)
                            THEN <<"0">> \o thresholdStr ELSE thresholdStr
                  normalizedStr == IF StartsWith(dotted, <<"-", ".">>)
                                   THEN <<"-", "0">> \o Tail(dotted) ELSE dotted
                  thresholdNum == parseFloat(normalizedStr)
              IN  IF thresholdNum.nan \/ thresholdNum.neg \/ thresholdNum.num = 0
                  THEN NoThreshold
                  ELSE [valid |-> TRUE, num |-> thresholdNum.num, den |-> thresholdNum.den]

\* filterThresholds[position]
ThresholdText(position) ==
    IF position \in DOMAIN filterThresholds
    THEN Defined(filterThresholds[position]) ELSE Undefined

\* Math.abs(Number(point.value)) > thresholdNum
ExceedsThreshold(value, thresholdNum) ==
    Abs(value) * thresholdNum.den > thresholdNum.num * 100

\* rejectedSerialsByPositionIndependent.get(position)
rejectedSerialsByPositionIndependent(position) ==
    LET thresholdNum == parseThreshold(ThresholdText(position)) IN
    IF ~thresholdNum.valid THEN {}
    ELSE {serial \in GroupSerials :
            LET point == FindPoint(serialGroups(serial), position) IN
            /\ point # <<>>
            /\ ExceedsThreshold(point[1].value, thresholdNum)}

\* leftVal >= rightVal + margin
ComparisonHolds(leftValue, rightValue, margin) ==
    Abs(leftValue) * margin.den >= Abs(rightValue) * margin.den + margin.num * 100

\* airgaps.map(pos => points.find(...)).filter(p => p && p.value !== null)
RECURSIVE FoundPoints(_, _)
FoundPoints(points, airgaps) ==
    IF airgaps = <<>> THEN <<>>
    ELSE FindPoint(points, Head(airgaps)) \o FoundPoints(points, Tail(airgaps))

\* the "Skip if we don't have all required values" test
HasAllRequired(found, airgaps) == Len(found) = Len(airgaps)

RuleRejects_InvalidMarginAsZero(filter, points) ==
    LET parsed == parseThreshold(Defined(filter.margin))
        margin == IF parsed.valid THEN parsed ELSE [valid |-> TRUE, num |-> 0, den |-> 1]
        leftPoints == FoundPoints(points, filter.leftAirgaps)
        rightPoints == FoundPoints(points, filter.rightAirgaps)
    IN  /\ filter.enabled
        /\ HasAllRequired(leftPoints, filter.leftAirgaps)
        /\ HasAllRequired(rightPoints, filter.rightAirgaps)
        /\ \E l \in 1..Len(leftPoints) : \E r \in 1..Len(rightPoints) :
              ComparisonHolds(leftPoints[l].value, rightPoints[r].value, margin)

\* one comparison rule applied to the points of one unit
RuleRejects(filter, points) ==
    LET margin == parseThreshold(Defined(filter.margin))
        leftPoints == FoundPoints(points, filter.leftAirgaps)
        rightPoints == FoundPoints(points, filter.rightAirgaps)
    IN  /\ filter.enabled
        /\ margin.valid
        /\ HasAllRequired(leftPoints, filter.leftAirgaps)
        /\ HasAllRequired(rightPoints, filter.rightAirgaps)
        /\ \E l \in 1..Len(leftPoints) : \E r \in 1..Len(rightPoints) :
              ComparisonHolds(leftPoints[l].value, rightPoints[r].value, margin)

comparisonRejectedSerials ==
    {serial \in GroupSerials :
        \E f \in 1..Len(comparisonFilters) :
            RuleRejects(comparisonFilters[f], serialGroups(serial))}

FirstFailingPosition_FirstPositionOnly(points, positions) ==
    IF positions = <<>> THEN <<>>
    ELSE LET point == FindPoint(points, Head(positions))
             thresholdNum == parseThreshold(ThresholdText(Head(positions)))
         IN  IF /\ point # <<>>
                /\ thresholdNum.valid
                /\ ExceedsThreshold(point[1].value, thresholdNum)
             THEN <<Head(positions)>>
             ELSE <<>>

\* the combined loop: the first position whose threshold the unit fails
RECURSIVE FirstFailingPosition(_, _)
FirstFailingPosition(points, positions) ==
    IF positions = <<>> THEN <<>>
    ELSE LET point == FindPoint(points, Head(positions))
             thresholdNum == parseThreshold(ThresholdText(Head(positions)))
         IN  IF /\ point # <<>>
                /\ thresholdNum.valid
                /\ ExceedsThreshold(point[1].value, thresholdNum)
             THEN <<Head(positions)>>
             ELSE FirstFailingPosition(points, Tail(positions))

\* rejectedSerialsByPosition.get(position)
rejectedSerialsByPosition(position) ==
    {serial \in GroupSerials :
        FirstFailingPosition(serialGroups(serial), allPositions) = <<position>>}

overallRejectedSerials_ThresholdOnly ==
    {serial \in GroupSerials :
        FirstFailingPosition(serialGroups(serial), allPositions) # <<>>}

overallRejectedSerials ==
    {serial \in GroupSerials :
        \/ FirstFailingPosition(serialGroups(serial), allPositions) # <<>>
        \/ serial \in comparisonRejectedSerials}

RECURSIVE KeptPoints(_)
KeptPoints(serials) ==
    IF serials = <<>> THEN <<>>
    ELSE (IF Head(serials) \in overallRejectedSerials THEN <<>>
          ELSE serialGroups(Head(serials))) \o KeptPoints(Tail(serials))

\* the points of the units that passed all filters, unit by unit
filteredData == KeptPoints(SerialOrder(allDataForPart, {}))

\* rejectionStats[position] without the percentage
rejectionStats(position) ==
    [rejected |-> Cardinality(rejectedSerialsByPositionIndependent(position)),
     total |-> Cardinality({allDataForPart[i].serial :
                  i \in {j \in 1..Len(allDataForPart) :
                            allDataForPart[j].position = position}})]

----------------------------------------------------------------------------
(* Handlers of the chart *)

\* onChange of a threshold input: one input per position of allPositions
SetFilterThreshold(texts) ==
    /\ \E position \in Range(allPositions) : \E text \in texts :
          filterThresholds' = Spread(filterThresholds, [c \in {position} |-> text])
    /\ UNCHANGED <<sheetVars, data, part, currentState, comparisonFilters, normVars, pipeVars,
                   appVars>>

addComparisonFilter ==
    /\ Len(comparisonFilters) < MaxRules
    /\ comparisonFilters' = Append(comparisonFilters,
          [leftAirgaps |-> <<IF Len(allPositions) >= 1 THEN allPositions[1] ELSE "N">>,
           rightAirgaps |-> <<IF Len(allPositions) >= 2 THEN allPositions[2] ELSE "O">>,
           margin |-> <<>>,
           enabled |-> TRUE])
    /\ UNCHANGED <<sheetVars, data, part, currentState, filterThresholds, normVars, pipeVars,
                   appVars>>

removeComparisonFilter ==
    /\ \E index \in 1..Len(comparisonFilters) :
          comparisonFilters' =
              SubSeq(comparisonFilters, 1, index - 1)
              \o SubSeq(comparisonFilters, index + 1, Len(comparisonFilters))
    /\ UNCHANGED <<sheetVars, data, part, currentState, filterThresholds, normVars, pipeVars,
                   appVars>>

\* updateComparisonFilter(index, 'enabled', checked) and (index, 'margin', text)
updateComparisonFilter(margins) ==
    /\ \E index \in 1..Len(comparisonFilters) :
          \/ comparisonFilters' =
                [comparisonFilters EXCEPT ![index].enabled = ~comparisonFilters[index].enabled]
          \/ \E text \in margins :
                comparisonFilters' = [comparisonFilters EXCEPT ![index].margin = text]
    /\ UNCHANGED <<sheetVars, data, part, currentState, filterThresholds, normVars, pipeVars,
                   appVars>>

\* [...currentAirgaps, position].sort()
SortedInsert(airgaps, position) ==
    SelectSeq(PositionOrder, LAMBDA c : c = position \/ Includes(airgaps, c))

toggleAirgap ==
    /\ \E filterIndex \in 1..Len(comparisonFilters) :
       \E side \in {"leftAirgaps", "rightAirgaps"} :
       \E position \in Range(allPositions) :
          LET currentAirgaps == comparisonFilters[filterIndex][side] IN
          comparisonFilters' =
              [comparisonFilters EXCEPT ![filterIndex][side] =
                  IF Includes(currentAirgaps, position)
                  THEN IF Len(currentAirgaps) > 1
                       THEN SelectSeq(currentAirgaps, LAMBDA c : c # position)
                       ELSE currentAirgaps
                  ELSE SortedInsert(currentAirgaps, position)]
    /\ UNCHANGED <<sheetVars, data, part, currentState, filterThresholds, normVars, pipeVars,
                   appVars>>

hasPreData == \E i \in 1..Len(data) : data[i].part = part /\ data[i].state = "pre"

hasPostData == \E i \in 1..Len(data) : data[i].part = part /\ data[i].state = "post"

setCurrentState_FiltersData ==
    /\ hasPreData /\ hasPostData
    /\ \E state \in {"pre", "post"} :
          /\ currentState' = state
          /\ data' = SelectSeq(data, LAMBDA p : p.part = part /\ p.state = state)
    /\ UNCHANGED <<sheetVars, part, filterThresholds, comparisonFilters, normVars, pipeVars,
                   appVars>>

\* the Pre Toggle / Post Toggle buttons, shown when the part has both states
setCurrentState ==
    /\ hasPreData /\ hasPostData
    /\ \E state \in {"pre", "post"} : currentState' = state
    /\ UNCHANGED <<sheetVars, data, part, filterThresholds, comparisonFilters, normVars, pipeVars,
                   appVars>>

----------------------------------------------------------------------------
(* Inputs of the chart *)

Point(prt, serial, position, state, value) ==
    [part |-> prt, serial |-> serial, position |-> position, state |-> state,
     value |-> value, measurement |-> Null, sourceFile |-> "raw_airgap",
     sheetName |-> "undefined"]

\* points of another slice: the other part
ForeignPoints ==
    << Point(<<"R", "L", "L">>, <<"1">>, "P", "pre", -70) >>

\* "", "0", "0.00", "0.000", "-.3", "a", ".3", " 0.5"
ThresholdTexts ==
    { <<>>, <<"0">>, <<"0", ".", "0", "0">>, <<"0", ".", "0", "0", "0">>,
      <<"-", ".", "3">>, <<"a">>, <<".", "3">>, <<" ", "0", ".", "5">> }

InitThreshold ==
    LET ThresholdPoints ==
            {Point(RRL, s, c, "pre", v) :
                s \in {<<"1">>, <<"2">>}, c \in {"P", "Q"}, v \in {30, -50}}
    IN  /\ \E n \in 0..MaxPoints : \E slice \in [1..n -> ThresholdPoints] :
              data = slice \o ForeignPoints
        /\ part = RRL
        /\ currentState = "pre"
        /\ filterThresholds = <<>>
        /\ comparisonFilters = <<>>
        /\ IdleNormalize
        /\ IdlePipeline
        /\ IdleApp
        /\ IdleSheet

\* ".1", ".2", "a", "0", "-.1"
MarginTexts == { <<".", "1">>, <<".", "2">>, <<"a">>, <<"0">>, <<"-", ".", "1">> }

InitComparison ==
    LET ComparisonPoints ==
            { Point(RRL, <<"1">>, "P", "pre", 35),
              Point(RRL, <<"1">>, "P", "pre", -50),
              Point(RRL, <<"1">>, "Q", "pre", 30),
              Point(RRL, <<"2">>, "P", "pre", -50) }
    IN  /\ \E n \in 0..MaxPoints : \E slice \in [1..n -> ComparisonPoints] :
              data = slice \o ForeignPoints
        /\ part = RRL
        /\ currentState = "pre"
        /\ filterThresholds = <<>>
        /\ comparisonFilters = <<>>
        /\ IdleNormalize
        /\ IdlePipeline
        /\ IdleApp
        /\ IdleSheet

----------------------------------------------------------------------------
(* Inputs of the tidy transform: one probe row with all eight slots, seen  *)
(* by up to MaxSheets fixture sheets                                       *)

TidyFixtureRecords ==
    {EclipseRecord(Serial123, RRL, "fixture.xlsx", sh,
                   IF sh = "S1" THEN Num(2) ELSE Null) : sh \in {"S1", "S2"}}

InitTidy ==
    LET TidyCols ==
            {[c \in Range(PRE_TOGGLE_COLS) \cup Range(POST_TOGGLE_COLS) |->
                IF c = "P" THEN p ELSE IF c \in filled THEN Num(5) ELSE Null] :
                p \in {Null, Num(5), Num(0), Num(Whole(1000)), Text, Blank},
                filled \in SUBSET {"Q", "R", "S", "T", "U", "V", "W"}}
    IN  /\ \E cols \in TidyCols : techformData = <<TechformRecord(Serial123, RRL, cols)>>
        /\ \E m \in 0..MaxSheets : eclipseData \in [1..m -> TidyFixtureRecords]
        /\ merged = <<>>
        /\ unmatchedCount = 0
        /\ airgapPoints = <<>>
        /\ pc = "parsed"
        /\ loading = TRUE
        /\ IdleNormalize
        /\ IdleChart
        /\ IdleApp
        /\ IdleSheet

----------------------------------------------------------------------------
(* Probe-only conversion: techformDataToAirgapPoints, and the end of       *)
(* parseFiles that chooses between the tidy points and the conversion      *)

\* the test of one pre column: a finite number, not an integer >= 1000,
\* of magnitude at most 0.80
FallbackKeeps_NoMagnitudeBound(value) ==
    /\ value.k = "num"
    /\ ~(IsInteger(value.v) /\ value.v >= Whole(1000))

FallbackKeeps(value) ==
    /\ value.k = "num"
    /\ ~(IsInteger(value.v) /\ value.v >= Whole(1000))
    /\ ~(Abs(value.v) > 80)

FallbackItemPoints(item) ==
    LET kept == SelectSeq(PRE_TOGGLE_COLS, LAMBDA c : FallbackKeeps(Field(item, c))) IN
    [j \in 1..Len(kept) |->
        Point(item.part, item.serial, kept[j], "pre", item[kept[j]].v)]

RECURSIVE techformDataToAirgapPoints(_)
techformDataToAirgapPoints(td) ==
    IF td = <<>> THEN <<>>
    ELSE FallbackItemPoints(Head(td)) \o techformDataToAirgapPoints(Tail(td))

\* the points parseFiles stores with setAirgapPoints: the conversion of the
\* probe rows if (points.length === 0 && techformData.length > 0)
StoredPoints(points, td, mergedData) ==
    IF Len(points) = 0 /\ Len(td) > 0 THEN techformDataToAirgapPoints(td)
    ELSE points

StorePoints ==
    /\ pc = "tidy"
    /\ airgapPoints' = StoredPoints(airgapPoints, techformData, merged)
    /\ pc' = "stored"
    /\ loading' = FALSE
    /\ UNCHANGED <<sheetVars, techformData, eclipseData, merged, unmatchedCount,
                   normVars, chartVars, appVars>>

----------------------------------------------------------------------------
(* Inputs of the probe-only conversion: probe rows and no fixture record   *)

InitFallback ==
    LET FallbackCols ==
            {[NoCols EXCEPT !["P"] = p, !["Q"] = q, !["T"] = t] :
                p \in {Null, Blank, Text, Num(0), Num(80), Num(-80), Num(81), Num(-90),
                       Num(Whole(1000))},
                q \in {Null, Num(5)},
                t \in {Null, Num(5)}}
    IN  /\ \E n \in 0..MaxProbeRows :
              techformData \in [1..n -> {TechformRecord(Serial123, RRL, cols) :
                                            cols \in FallbackCols}]
        /\ eclipseData = <<>>
        /\ merged = <<>>
        /\ unmatchedCount = 0
        /\ airgapPoints = <<>>
        /\ pc = "parsed"
        /\ loading = TRUE
        /\ IdleNormalize
        /\ IdleChart
        /\ IdleApp
        /\ IdleSheet

----------------------------------------------------------------------------
(* File selection and parsing in the App: handleFilesSelected, and the     *)
(* start of parseFiles (parseTechformFile, parseAllCheckedFixtureFiles).   *)
(* A file is what its parser makes of it: a probe file is unreadable,      *)
(* empty, or yields records; a fixture file is unreadable or a list of     *)
(* sheets, and a sheet throws, has no markers, or yields records.          *)

ProbeFile(kind, records) == [kind |-> kind, records |-> records]

Sheet(kind, records) == [kind |-> kind, records |-> records]

FixtureFile(kind, sheets) == [kind |-> kind, sheets |-> sheets]

\* parseTechformFile: rejects an unreadable or empty file
parseTechformFile(file) ==
    IF file.kind \in {"unreadable", "empty"}
    THEN [threw |-> TRUE, data |-> <<>>]
    ELSE [threw |-> FALSE, data |-> file.records]

\* parseCheckedFixtureSheet seen from its caller
parseCheckedFixtureSheet(sheet) ==
    IF sheet.kind = "throws" THEN [threw |-> TRUE, data |-> <<>>]
    ELSE IF sheet.kind = "nomarkers" THEN [threw |-> FALSE, data |-> <<>>]
    ELSE [threw |-> FALSE, data |-> sheet.records]

\* the sheet loop of parseCheckedFixtureFile: a throwing sheet is skipped
RECURSIVE SheetLoop(_)
SheetLoop(sheets) ==
    IF sheets = <<>> THEN <<>>
    ELSE LET sheetData == parseCheckedFixtureSheet(Head(sheets)) IN
         (IF sheetData.threw THEN <<>> ELSE sheetData.data) \o SheetLoop(Tail(sheets))

parseCheckedFixtureFile(file) ==
    IF file.kind = "unreadable" THEN [threw |-> TRUE, data |-> <<>>]
    ELSE [threw |-> FALSE, data |-> SheetLoop(file.sheets)]

\* a file that fails is logged and its error thrown again
RECURSIVE parseAllCheckedFixtureFiles(_)
parseAllCheckedFixtureFiles(files) ==
    IF files = <<>> THEN [threw |-> FALSE, data |-> <<>>]
    ELSE LET fileData == parseCheckedFixtureFile(Head(files))
             rest == parseAllCheckedFixtureFiles(Tail(files))
         IN  IF fileData.threw \/ rest.threw THEN [threw |-> TRUE, data |-> <<>>]
             ELSE [threw |-> FALSE, data |-> fileData.data \o rest.data]

handleFilesSelected ==
    LET ProbeFiles ==
            { ProbeFile("unreadable", <<>>), ProbeFile("empty", <<>>), ProbeFile("rows", <<>>),
              ProbeFile("rows", <<TechformRecord(Serial123, RRL, ColsWithP(Num(5)))>>) }
        Sheets ==
            { Sheet("throws", <<>>), Sheet("nomarkers", <<>>),
              Sheet("rows", <<EclipseRecord(Serial123, RRL, "fixture.xlsx", "S1", Num(2))>>) }
        FixtureFiles ==
            {FixtureFile("unreadable", <<>>)}
            \cup {FixtureFile("workbook", sheets) : sheets \in SeqsUpTo(Sheets, MaxSheets)}
    IN  /\ pc \in {"idle", "stored", "error"}
        /\ rawAirgapFiles' \in SeqsUpTo(ProbeFiles, 1)
        /\ checkedFixtureFiles' \in SeqsUpTo(FixtureFiles, MaxFiles)
        /\ merged' = <<>>
        /\ airgapPoints' = <<>>
        /\ error' = "null"
        /\ pc' = "selected"
        /\ UNCHANGED <<sheetVars, techformData, eclipseData, unmatchedCount, loading,
                       inFlight, normVars, chartVars>>

\* the effect: returns when a file list is empty, else parses both sources;
\* a rejected parse ends in the catch branch
ParseFiles ==
    /\ pc = "selected"
    /\ Len(rawAirgapFiles) > 0
    /\ Len(checkedFixtureFiles) > 0
    /\ LET probe == parseTechformFile(rawAirgapFiles[1])
           fixture == parseAllCheckedFixtureFiles(checkedFixtureFiles)
       IN  IF probe.threw \/ fixture.threw
           THEN /\ error' = "Failed to parse files"
                /\ pc' = "error"
                /\ loading' = FALSE
                /\ UNCHANGED <<techformData, eclipseData>>
           ELSE /\ error' = "null"
                /\ pc' = "parsed"
                /\ loading' = TRUE
                /\ techformData' = probe.data
                /\ eclipseData' = fixture.data
    /\ UNCHANGED <<sheetVars, merged, unmatchedCount, airgapPoints, rawAirgapFiles,
                   checkedFixtureFiles, inFlight, normVars, chartVars>>

InitParse ==
    /\ rawAirgapFiles = <<>>
    /\ checkedFixtureFiles = <<>>
    /\ error = "null"
    /\ inFlight = <<>>
    /\ techformData = <<>>
    /\ eclipseData = <<>>
    /\ merged = <<>>
    /\ unmatchedCount = 0
    /\ airgapPoints = <<>>
    /\ pc = "idle"
    /\ loading = FALSE
    /\ IdleNormalize
    /\ IdleChart
    /\ IdleSheet

----------------------------------------------------------------------------
(* The App with overlapping runs. parseFiles is an async function started  *)
(* by the effect on every change of the two file lists and never           *)
(* cancelled; it is suspended at its two awaits. A run in flight is the    *)
(* file lists its closure holds, the await it is suspended at and its      *)
(* local techformData.                                                     *)

\* handleFilesSelected and the effect it triggers, up to the first await
SelectFiles ==
    LET ProbeFiles ==
            { ProbeFile("unreadable", <<>>),
              ProbeFile("rows", <<TechformRecord(Serial123, RRL, ColsWithP(Num(5)))>>),
              ProbeFile("rows", <<TechformRecord(Serial123, RRL, ColsWithP(Num(7)))>>),
              ProbeFile("rows", <<TechformRecord(Serial123, RRL, NoCols),
                                  TechformRecord(<<"7", "7">>, RRL, ColsWithP(Num(5)))>>) }
        FixtureFiles ==
            { FixtureFile("workbook",
                  <<Sheet("rows",
                          <<EclipseRecord(Serial123, RRL, "fixture.xlsx", "S1", Num(2))>>)>>) }
    IN  /\ pc = "app"
        /\ Len(inFlight) < MaxInFlight
        /\ rawAirgapFiles' \in SeqsUpTo(ProbeFiles, 1)
        /\ checkedFixtureFiles' \in SeqsUpTo(FixtureFiles, 1)
        /\ merged' = <<>>
        /\ airgapPoints' = <<>>
        /\ error' = "null"
        /\ IF Len(rawAirgapFiles') = 0 \/ Len(checkedFixtureFiles') = 0
           THEN UNCHANGED <<loading, inFlight>>
           ELSE /\ loading' = TRUE
                /\ inFlight' = Append(inFlight,
                                      [rawAirgapFiles |-> rawAirgapFiles',
                                       checkedFixtureFiles |-> checkedFixtureFiles',
                                       at |-> "parseTechformFile",
                                       techformData |-> <<>>])
        /\ UNCHANGED <<sheetVars, techformData, eclipseData, unmatchedCount, pc, normVars,
                       chartVars>>

\* a run resumes after await parseTechformFile: to the next await, or
\* through catch and finally
ProbeParsed ==
    /\ pc = "app"
    /\ \E i \in 1..Len(inFlight) :
          /\ inFlight[i].at = "parseTechformFile"
          /\ LET probe == parseTechformFile(inFlight[i].rawAirgapFiles[1])
             IN  IF probe.threw
                 THEN /\ error' = "Failed to parse files"
                      /\ loading' = FALSE
                      /\ inFlight' = SubSeq(inFlight, 1, i - 1)
                                      \o SubSeq(inFlight, i + 1, Len(inFlight))
                 ELSE /\ inFlight' = [inFlight EXCEPT
                                         ![i].at = "parseAllCheckedFixtureFiles",
                                         ![i].techformData = probe.data]
                      /\ UNCHANGED <<error, loading>>
    /\ UNCHANGED <<sheetVars, rawAirgapFiles, checkedFixtureFiles, techformData,
                   eclipseData, merged, unmatchedCount, airgapPoints, pc, normVars,
                   chartVars>>

\* a run resumes after await parseAllCheckedFixtureFiles: merges, transforms
\* and stores, or goes through catch; then finally
FixtureParsed ==
    /\ pc = "app"
    /\ \E i \in 1..Len(inFlight) :
          /\ inFlight[i].at = "parseAllCheckedFixtureFiles"
          /\ LET fixture == parseAllCheckedFixtureFiles(inFlight[i].checkedFixtureFiles)
                 mergeResult == mergeData(inFlight[i].techformData, fixture.data)
                 withAirgap == extractAirgapValues(mergeResult.merged)
             IN  IF fixture.threw
                 THEN /\ error' = "Failed to parse files"
                      /\ UNCHANGED <<merged, unmatchedCount, airgapPoints>>
                 ELSE /\ unmatchedCount' = mergeResult.unmatchedCount
                      /\ merged' = withAirgap
                      /\ airgapPoints' = StoredPoints(toTidyFormat(withAirgap),
                                                      inFlight[i].techformData, withAirgap)
                      /\ UNCHANGED error
          /\ inFlight' = SubSeq(inFlight, 1, i - 1) \o SubSeq(inFlight, i + 1, Len(inFlight))
    /\ loading' = FALSE
    /\ UNCHANGED <<sheetVars, rawAirgapFiles, checkedFixtureFiles, techformData,
                   eclipseData, pc, normVars, chartVars>>

\* the click handler of 'Generate Dashboard'; the button is disabled while
\* loading and while both file lists are empty
GenerateDashboard ==
    /\ pc = "app"
    /\ ~(loading \/ (Len(rawAirgapFiles) = 0 /\ Len(checkedFixtureFiles) = 0))
    /\ IF Len(merged) > 0
       THEN airgapPoints' = toTidyFormat(extractAirgapValues(merged))
       ELSE UNCHANGED airgapPoints
    /\ UNCHANGED <<sheetVars, techformData, eclipseData, merged, unmatchedCount, pc, loading,
                   normVars, chartVars, appVars>>

InitAsync ==
    /\ techformData = <<>>
    /\ eclipseData = <<>>
    /\ merged = <<>>
    /\ unmatchedCount = 0
    /\ airgapPoints = <<>>
    /\ pc = "app"
    /\ loading = FALSE
    /\ IdleApp
    /\ IdleNormalize
    /\ IdleChart
    /\ IdleSheet

----------------------------------------------------------------------------
(* The chart mounted on the points of a finished run: one probe row seen   *)
(* by 1..MaxSheets fixture sheets                                          *)

InitMounted ==
    LET MountedCols ==
            {[NoCols EXCEPT !["P"] = Num(-50), !["Q"] = q, !["T"] = t] :
                q \in {Num(30), Null}, t \in {Num(30), Null}}
    IN  /\ \E cols \in MountedCols : techformData = <<TechformRecord(Serial123, RRL, cols)>>
        /\ \E m \in 1..MaxSheets : eclipseData \in [1..m -> TidyFixtureRecords]
        /\ merged = extractAirgapValues(mergeData(techformData, eclipseData).merged)
        /\ unmatchedCount = mergeData(techformData, eclipseData).unmatchedCount
        /\ airgapPoints = StoredPoints(toTidyFormat(merged), techformData, merged)
        /\ pc = "stored"
        /\ loading = FALSE
        /\ data = airgapPoints
        /\ part = RRL
        /\ currentState = "pre"
        /\ filterThresholds = <<>>
        /\ comparisonFilters = <<>>
        /\ IdleNormalize
        /\ IdleApp
        /\ IdleSheet

----------------------------------------------------------------------------
(* Fixture sheets: column letters, cell access and the marker scan         *)
(* findNestPositions. A worksheet maps the address <<c, r>> (zero-based    *)
(* column and row) of each populated cell to the text String(cell.v); a    *)
(* numeric cell is its decimal text with at most two fraction digits.      *)
(* The marker map is the list of its entries in insertion order.           *)

Letters ==
    << "A", "B", "C", "D", "E", "F", "G", "H", "I", "J", "K", "L", "M",
       "N", "O", "P", "Q", "R", "S", "T", "U", "V", "W", "X", "Y", "Z" >>

\* the loop of columnLetterToIndex; charCode is colLetter.charCodeAt(i)
RECURSIVE ColumnLoop(_, _)
ColumnLoop(colLetter, colIndex) ==
    IF colLetter = <<>> THEN colIndex
    ELSE LET charCode == 64 + (CHOOSE i \in 1..26 : Letters[i] = Head(colLetter))
         IN  ColumnLoop(Tail(colLetter), colIndex * 26 + (charCode - 64))

columnLetterToIndex(colLetter) == ColumnLoop(colLetter, 0) - 1

RECURSIVE LetterLoop(_, _)
LetterLoop(index, result) ==
    IF index > 0
    THEN LET i == index - 1
         IN  LetterLoop(i \div 26, <<Letters[(i % 26) + 1]>> \o result)
    ELSE result

indexToColumnLetter(index) == LetterLoop(index + 1, <<>>)

\* cell ? cell.v : null
getCellValue(ws, colLetter, row) ==
    LET cellAddress == <<columnLetterToIndex(colLetter), row - 1>>
    IN  IF cellAddress \in DOMAIN ws THEN Defined(ws[cellAddress]) ELSE Undefined

\* strValue.match(/\[(\d+)\]/): the digits of the first "[digits]", or <<>>
RECURSIVE BracketMatch(_)
BracketMatch(str) ==
    IF str = <<>> THEN <<>>
    ELSE LET digits == DigitPrefix(Tail(str))
         IN  IF /\ Head(str) = "["
                /\ digits # <<>>
                /\ Len(str) >= Len(digits) + 2
                /\ str[Len(digits) + 2] = "]"
             THEN digits
             ELSE BracketMatch(Tail(str))

\* strValue.match(/(\d+)/): the first run of digits, or <<>>
RECURSIVE FirstDigitRun(_)
FirstDigitRun(str) ==
    IF str = <<>> THEN <<>>
    ELSE IF IsDigit(Head(str)) THEN DigitPrefix(str)
    ELSE FirstDigitRun(Tail(str))

\* Number(text) in hundredths: the whole trimmed text must be a decimal
\* literal (sign, digits, '.', digits); the empty text is 0
ToNumber(text) ==
    LET t == Trim(text)
        neg == t # <<>> /\ Head(t) = "-"
        unsigned == IF t # <<>> /\ Head(t) \in {"-", "+"} THEN Tail(t) ELSE t
        intDigits == DigitPrefix(unsigned)
        rest == SubSeq(unsigned, Len(intDigits) + 1, Len(unsigned))
        hasPoint == rest # <<>> /\ Head(rest) = "."
        fracDigits == IF hasPoint THEN DigitPrefix(Tail(rest)) ELSE <<>>
        consumed == Len(rest) = (IF hasPoint THEN 1 + Len(fracDigits) ELSE 0)
        magnitude == 100 * DigitsToNumber(intDigits)
                     + DigitsToNumber(SubSeq(fracDigits \o <<"0", "0">>, 1, 2))
    IN  IF t = <<>> THEN [nan |-> FALSE, v |-> 0]
        ELSE IF ~consumed \/ (intDigits = <<>> /\ fracDigits = <<>>) THEN [nan |-> TRUE, v |-> 0]
        ELSE [nan |-> FALSE, v |-> IF neg THEN 0 - magnitude ELSE magnitude]

NullNest == [isNull |-> TRUE, nan |-> FALSE, v |-> 0]

InNestRange(v) == v >= Whole(1) /\ v <= Whole(8)

\* the value of nestNum findNestPositions computes for one cell text
NestNumOfCell(value) ==
    LET strValue == Trim(value)
        bracketMatch == BracketMatch(strValue)
    IN  IF bracketMatch # <<>>
        THEN LET n == ToNumber(bracketMatch)
             IN  IF InNestRange(n.v) THEN [isNull |-> FALSE, nan |-> n.nan, v |-> n.v] ELSE NullNest
        ELSE LET n == ToNumber(strValue)
             IN  IF n.nan \/ n.v < Whole(1) \/ n.v > Whole(8)
                 THEN LET numMatch == FirstDigitRun(strValue)
                      IN  IF numMatch # <<>>
                          THEN LET extracted == ToNumber(numMatch)
                               IN  IF InNestRange(extracted.v)
                                   THEN [isNull |-> FALSE, nan |-> FALSE,
                                         v |-> extracted.v]
                                   ELSE NullNest
                          ELSE NullNest
                 ELSE [isNull |-> FALSE, nan |-> n.nan, v |-> n.v]

\* Map.prototype.has and set on the list of entries
MapHas(map, key) == \E i \in 1..Len(map) : map[i].key = key

MapSet(map, key, value) ==
    IF MapHas(map, key)
    THEN [i \in 1..Len(map) |->
             IF map[i].key = key THEN [key |-> key, value |-> value] ELSE map[i]]
    ELSE Append(map, [key |-> key, value |-> value])

\* the inner loop of findNestPositions over the first 50 columns of a row
RECURSIVE ScanColumns(_, _, _, _)
ScanColumns(ws, row, col, positions) ==
    IF col >= 50 THEN positions
    ELSE LET colLetter == indexToColumnLetter(col)
             value == getCellValue(ws, colLetter, row)
             nestNum == IF value.defined THEN NestNumOfCell(value.text) ELSE NullNest
             accepted == ~nestNum.isNull /\ ~nestNum.nan /\ InNestRange(nestNum.v)
         IN  CHOOSE scanned \in
                 {ScanColumns(ws, row, col + 1, next) :
                     next \in {IF accepted /\ (~MapHas(positions, nestNum.v) \/ row = 13)
                               THEN MapSet(positions, nestNum.v, colLetter)
                               ELSE positions}} : TRUE

\* the outer loop over rows 10..20, left when the map holds eight entries
RECURSIVE ScanRows(_, _, _)
ScanRows(ws, row, positions) ==
    IF row > 20 THEN positions
    ELSE CHOOSE scanned \in
             {IF Len(after) = 8 THEN after ELSE ScanRows(ws, row + 1, after) :
                 after \in {ScanColumns(ws, row, 0, positions)}} : TRUE

findNestPositions(ws) == ScanRows(ws, 10, <<>>)

----------------------------------------------------------------------------
(* Fixture sheets: parseCheckedFixtureSheet on the cells of one worksheet, *)
(* named "S1" or "New Gauge" (the name that selects the branch probing the *)
(* neighbouring columns for the measurement).                              *)

\* constants.ts: slot number -> part code
NEST_TO_PART_MAP ==
    [nestNum \in 1..8 |-> VALID_PARTS[nestNum]]

\* NEST_TO_PART_MAP[nestNum]: undefined (<<>>) for a key that is no slot
PartOfNest(nestNum) ==
    IF IsInteger(nestNum) /\ (nestNum \div 100) \in DOMAIN NEST_TO_PART_MAP
    THEN NEST_TO_PART_MAP[nestNum \div 100]
    ELSE <<>>

\* the count nestsInRow of one row of the header scan; Number(null) is 0
NestsInRow(ws, row, positions) ==
    Cardinality({i \in 1..Len(positions) :
        LET value == getCellValue(ws, positions[i].value, row)
            numValue == IF value.defined THEN ToNumber(value.text)
                        ELSE [nan |-> FALSE, v |-> 0]
        IN  ~numValue.nan /\ numValue.v = positions[i].key})

\* the header scan: the first of rows 10..20 with at least three matching
\* cells, else the default row 13
RECURSIVE HeaderScan(_, _, _)
HeaderScan(ws, row, positions) ==
    IF row > 20 THEN 13
    ELSE IF NestsInRow(ws, row, positions) >= 3 THEN row
    ELSE HeaderScan(ws, row + 1, positions)

LowerLetters ==
    << "a", "b", "c", "d", "e", "f", "g", "h", "i", "j", "k", "l", "m",
       "n", "o", "p", "q", "r", "s", "t", "u", "v", "w", "x", "y", "z" >>

\* String.prototype.toLowerCase
ToLowerCase(str) ==
    [i \in 1..Len(str) |->
        IF \E j \in 1..26 : Letters[j] = str[i]
        THEN LowerLetters[CHOOSE j \in 1..26 : Letters[j] = str[i]]
        ELSE str[i]]

\* String.prototype.includes
StrIncludes(str, sub) ==
    \E i \in 1..(Len(str) - Len(sub) + 1) : SubSeq(str, i, i + Len(sub) - 1) = sub

invalidSerials ==
    { <<"n", "/", "a">>, <<"f", "a", "i", "l">>, <<"p", "a", "s", "s">>,
      <<"n", "a">>, <<>>, <<"0">>, <<"n", "u", "l", "l">>,
      <<"u", "n", "d", "e", "f", "i", "n", "e", "d">>, <<"p">> }

NonSerialWords ==
    { <<"n", "e", "s", "t">>, <<"h", "o", "l", "e">>, <<"p", "a", "s", "s">>,
      <<"f", "a", "i", "l">>, <<"p", "i", "n">> }

NoSerial == [found |-> FALSE, serial |-> <<>>]

\* the validation of the candidate serial cell: a positive integer is
\* rewritten by String(Math.round(n)); other text of three characters or
\* more is kept unless it holds a non-serial word or is a small decimal
ValidateSerial(testSerial) ==
    IF ~testSerial.defined THEN NoSerial
    ELSE LET serialStr == Trim(testSerial.text)
             serialLower == ToLowerCase(serialStr)
             numValue == ToNumber(testSerial.text)
             testNum == ToNumber(serialStr)
         IN  IF serialLower \in invalidSerials \/ serialStr = <<>> THEN NoSerial
             ELSE IF ~numValue.nan /\ IsInteger(numValue.v) /\ numValue.v > 0
             THEN [found |-> TRUE, serial |-> NumberToString(numValue.v \div 100)]
             ELSE IF /\ Len(serialStr) >= 3
                     /\ \A word \in NonSerialWords : ~StrIncludes(serialLower, word)
                     /\ (testNum.nan \/ Abs(testNum.v) >= Whole(100) \/ IsInteger(testNum.v))
             THEN [found |-> TRUE, serial |-> serialStr]
             ELSE NoSerial

SerialCell_NextOffset(ws, nestCol, row) ==
    LET atOne == getCellValue(ws, indexToColumnLetter(columnLetterToIndex(nestCol) + 1), row)
        atTwo == getCellValue(ws, indexToColumnLetter(columnLetterToIndex(nestCol) + 2), row)
    IN  IF ValidateSerial(atOne).found THEN atOne ELSE atTwo

\* testSerial: the cell expectedOffset = 1 columns right of the marker column
SerialCell(ws, nestCol, row) ==
    getCellValue(ws, indexToColumnLetter(columnLetterToIndex(nestCol) + 1), row)

\* the measurement of a special sheet: the cell of the marker column,
\* unless its number exceeds 1 in magnitude; then the first cell at offsets
\* -1, 1, -2, 2, -3, 3 holding a non-integer of magnitude at most 0.80, else
\* the number divided by 100 or by 1000 if that is at most 0.80, else the
\* cell. A scaled number has the field v; the division is exact for the
\* cell texts of the inputs (whole numbers, multiples of 10 for / 1000).
SpecialMeasurement(ws, nestCol, row) ==
    LET baseMeasurement == getCellValue(ws, nestCol, row)
        numBase == IF baseMeasurement.defined THEN ToNumber(baseMeasurement.text)
                   ELSE [nan |-> TRUE, v |-> 0]
        offsets == <<-1, 1, -2, 2, -3, 3>>
        TestValue(k) ==
            getCellValue(ws, indexToColumnLetter(columnLetterToIndex(nestCol) + offsets[k]),
                         row)
        found == {k \in 1..Len(offsets) :
                    /\ columnLetterToIndex(nestCol) + offsets[k] >= 0
                    /\ TestValue(k).defined
                    /\ LET testNum == ToNumber(TestValue(k).text)
                       IN  ~testNum.nan /\ Abs(testNum.v) <= 80 /\ ~IsInteger(testNum.v)}
    IN  IF baseMeasurement.defined /\ ~numBase.nan /\ Abs(numBase.v) > Whole(1)
        THEN IF found # {}
             THEN TestValue(CHOOSE k \in found : \A other \in found : k <= other)
             ELSE IF Abs(numBase.v) <= 80 * 100
             THEN [defined |-> TRUE, text |-> <<>>, v |-> numBase.v \div 100]
             ELSE IF Abs(numBase.v) <= 80 * 1000
             THEN [defined |-> TRUE, text |-> <<>>, v |-> numBase.v \div 1000]
             ELSE baseMeasurement
        ELSE baseMeasurement

ValidMeasurement_BaseValue(measurement) ==
    IF ~measurement.defined THEN Null
    ELSE IF "v" \in DOMAIN measurement THEN Num(measurement.v)
    ELSE IF measurement.text = <<>> THEN Null
    ELSE LET numValue == ToNumber(measurement.text)
         IN  IF numValue.nan THEN Null ELSE Num(numValue.v)

\* validMeasurement of the measurement: a cell value or a scaled number
ValidMeasurement(measurement) ==
    IF ~measurement.defined THEN Null
    ELSE IF "v" \notin DOMAIN measurement /\ measurement.text = <<>> THEN Null
    ELSE LET numValue == IF "v" \in DOMAIN measurement
                         THEN [nan |-> FALSE, v |-> measurement.v]
                         ELSE ToNumber(measurement.text)
         IN  IF numValue.nan THEN Null
             ELSE IF Abs(numValue.v) > 80 THEN Null
             ELSE IF IsInteger(numValue.v) /\ Abs(numValue.v) >= Whole(100) THEN Null
             ELSE Num(numValue.v)

\* the loop over the marker entries on one data row
RECURSIVE NestLoop(_, _, _, _, _, _)
NestLoop(ws, row, positions, i, sheet, acc) ==
    IF i > Len(positions) THEN acc
    ELSE LET nestNum == positions[i].key
             nestCol == positions[i].value
             \* sheetName.toLowerCase().includes('new gauge'); the other
             \* disjunct, includes('oct 23rd new gauge'), implies this one
             isSpecialSheet ==
                 StrIncludes(ToLowerCase(sheet.sheetName),
                             <<"n", "e", "w", " ", "g", "a", "u", "g", "e">>)
             measurement == IF isSpecialSheet
                            THEN SpecialMeasurement(ws, nestCol, row)
                            ELSE getCellValue(ws, nestCol, row)
             serial == ValidateSerial(SerialCell(ws, nestCol, row))
             prt == PartOfNest(nestNum)
         IN  IF ~serial.found THEN NestLoop(ws, row, positions, i + 1, sheet, acc)
             ELSE IF prt = <<>>
             THEN NestLoop(ws, row, positions, i + 1, sheet,
                           [acc EXCEPT !.hasData = TRUE])
             ELSE NestLoop(ws, row, positions, i + 1, sheet,
                           [hasData |-> TRUE,
                            results |-> Append(acc.results,
                                EclipseRecord(Trim(serial.serial), prt, sheet.fileName,
                                              sheet.sheetName,
                                              ValidMeasurement(measurement)))])

\* the look-ahead of the end-of-data test: rows among row..row+4 with no
\* value in any marker column
EmptyRows(ws, row, positions) ==
    Cardinality({checkRow \in row..(row + 4) :
        ~\E i \in 1..Len(positions) :
            LET testValue == getCellValue(ws, positions[i].value, checkRow)
            IN  testValue.defined /\ testValue.text # <<>>})

\* the loop over the data rows, up to row 1000
RECURSIVE RowLoop(_, _, _, _, _)
RowLoop(ws, row, positions, sheet, rows) ==
    IF row > 1000 THEN rows
    ELSE CHOOSE read \in
             {IF ~acc.hasData /\ row > 20 /\ EmptyRows(ws, row, positions) >= 3
              THEN acc.results
              ELSE RowLoop(ws, row + 1, positions, sheet, acc.results) :
                 acc \in {NestLoop(ws, row, positions, 1, sheet,
                                   [hasData |-> FALSE, results |-> rows])}} : TRUE

\* parseCheckedFixtureSheet with the values of its locals
parseCheckedFixtureSheetCells(ws, sheetName, fileName) ==
    CHOOSE parsed \in
        {IF Len(positions) = 0
         THEN [nestPositions |-> positions, headerRow |-> 0, results |-> <<>>]
         ELSE CHOOSE filled \in
                  {[nestPositions |-> positions, headerRow |-> header,
                    results |-> LET dataStartRow == header + 1
                                IN  RowLoop(ws, dataStartRow, positions,
                                            [sheetName |-> sheetName,
                                             fileName |-> fileName],
                                            <<>>)] :
                      header \in {HeaderScan(ws, 10, positions)}} : TRUE :
            positions \in {findNestPositions(ws)}} : TRUE

ParseCheckedFixtureSheet ==
    /\ pc = "sheet"
    /\ \E sheetName \in {<<"S", "1">>, <<"N", "e", "w", " ", "G", "a", "u", "g", "e">>} :
       \E parsed \in {parseCheckedFixtureSheetCells(worksheet, sheetName, "file")} :
           /\ nestPositions' = parsed.nestPositions
           /\ headerRow' = parsed.headerRow
           /\ results' = parsed.results
    /\ pc' = "sheetParsed"
    /\ UNCHANGED <<worksheet, rawRows, techformData, eclipseData, merged, unmatchedCount,
                   airgapPoints, loading, normVars, chartVars, appVars>>

----------------------------------------------------------------------------
(* Inputs of the marker scan: an optional row of the eight plain slot      *)
(* numbers in columns B..I, and up to MaxMarkers further cells in columns  *)
(* A and AA of rows 10, 13 and 14                                          *)

\* marker cell texts: "F[3]", "[9]", "3", "3.5", "A3", "12"
MarkerTexts ==
    { <<"F", "[", "3", "]">>,
      <<"[", "9", "]">>,
      <<"3">>,
      <<"3", ".", "5">>,
      <<"A", "3">>,
      <<"1", "2">> }

\* a row with the slots 1..n, slot k in column firstCol + step * (k - 1),
\* as the plain number k or as "FLU [k] (Hole)"-style text, shortened to "F[k]"
MarkerRow(row, n, style, firstCol, step) ==
    [cellAddress \in {<<firstCol + step * (k - 1), row - 1>> : k \in 1..n} |->
        LET k == ((cellAddress[1] - firstCol) \div step) + 1
        IN  IF style = "plain" THEN NumberToString(k)
            ELSE <<"F", "[">> \o NumberToString(k) \o <<"]">>]

NoCells == [cellAddress \in {} |-> <<>>]

InitLocate ==
    LET LocateMarkerRows ==
            { NoCells, MarkerRow(12, 8, "plain", 1, 1), MarkerRow(13, 8, "plain", 1, 1) }
        LocateCells == {<<c, r>> : c \in {0, 26}, r \in {9, 12, 13}}
        LocateFreeCells ==
            UNION {[S -> MarkerTexts] :
                      S \in {T \in SUBSET LocateCells : Cardinality(T) <= MaxMarkers}}
    IN  /\ worksheet \in {Spread(markerRow, free) :
                              markerRow \in LocateMarkerRows, free \in LocateFreeCells}
        /\ nestPositions = <<>>
        /\ headerRow = 0
        /\ results = <<>>
        /\ rawRows = <<>>
        /\ techformData = <<>>
        /\ eclipseData = <<>>
        /\ merged = <<>>
        /\ unmatchedCount = 0
        /\ airgapPoints = <<>>
        /\ pc = "sheet"
        /\ loading = FALSE
        /\ IdleNormalize
        /\ IdleChart
        /\ IdleApp

----------------------------------------------------------------------------
(* Inputs of the sheet parser: marker rows with slot k in column           *)
(* 2 * (k - 1), and up to MaxDataRows data rows holding the measurement    *)
(* and serial cells of slot 1 and the measurement cell of slot 2           *)

\* serial cell texts: "0123", " 77 ", "0", "AB1", "pin1", "0.5"
SerialTexts ==
    { <<"0", "1", "2", "3">>,
      <<" ", "7", "7", " ">>,
      <<"0">>,
      <<"A", "B", "1">>,
      <<"p", "i", "n", "1">>,
      <<"0", ".", "5">> }

\* the cells of one data row: column A (measurement of slot 1), column B
\* (serial of slot 1) and column C (measurement of slot 2), each optional
DataRowCells(row) ==
    { Spread(Spread(a, b), c) :
        a \in {NoCells} \cup {[cellAddress \in {<<0, row - 1>>} |-> <<"-", "0", ".", "0", "7">>]},
        b \in {NoCells} \cup {[cellAddress \in {<<1, row - 1>>} |-> t] : t \in SerialTexts},
        c \in {NoCells, [cellAddress \in {<<2, row - 1>>} |-> <<"1", "2", "3">>]} }

DataRowNumbers == <<14, 16>>

RECURSIVE DataCells(_, _)
DataCells(i, n) ==
    IF i > Len(DataRowNumbers) THEN {NoCells}
    ELSE LET rest == DataCells(i + 1, n)
             more == IF n = 0 THEN {} ELSE DataCells(i + 1, n - 1)
         IN  rest \cup {Spread(rowCells, others) :
                           rowCells \in DataRowCells(DataRowNumbers[i]) \ {NoCells},
                           others \in more}

InitSheet ==
    LET SheetMarkerRows ==
            { NoCells,
              MarkerRow(13, 8, "plain", 0, 2),
              MarkerRow(13, 8, "bracket", 0, 2),
              MarkerRow(15, 4, "plain", 0, 2),
              Spread(MarkerRow(11, 3, "plain", 0, 2), MarkerRow(13, 8, "plain", 0, 2)),
              Spread(MarkerRow(12, 8, "bracket", 0, 2), MarkerRow(22, 8, "plain", 0, 2)) }
    IN  /\ worksheet \in {Spread(markerRows, dataCells) :
                              markerRows \in SheetMarkerRows,
                              dataCells \in DataCells(1, MaxDataRows)}
        /\ nestPositions = <<>>
        /\ headerRow = 0
        /\ results = <<>>
        /\ rawRows = <<>>
        /\ techformData = <<>>
        /\ eclipseData = <<>>
        /\ merged = <<>>
        /\ unmatchedCount = 0
        /\ airgapPoints = <<>>
        /\ pc = "sheet"
        /\ loading = FALSE
        /\ IdleNormalize
        /\ IdleChart
        /\ IdleApp

----------------------------------------------------------------------------
(* Inputs of the row scan: the slots 1..3 in columns B, E and H of row 20, *)
(* so that the data rows start at row 21, and MaxLateRows data rows. The   *)
(* serial of a data row is its row number.                                 *)

\* the cells of data row `row`: nothing; a value in the marker column B and
\* no serial; or the serial in column C with the marker column B empty or
\* holding "25", "250" or "900", the last also with "0.05" in column A
\* (the richer choices in row 21 only)
RECURSIVE LateCells(_)
LateCells(n) ==
    LET row == 20 + n
        Cell(col, text) == [cellAddress \in {<<col, row - 1>>} |-> text]
        serial == Cell(2, NumberToString(row))
        LateRowCells ==
            { NoCells, Cell(1, <<"2", "5">>), Spread(Cell(1, <<"2", "5">>), serial) }
            \cup (IF n = 1
                  THEN { serial,
                         Spread(Cell(1, <<"2", "5", "0">>), serial),
                         Spread(Cell(1, <<"9", "0", "0">>), serial),
                         Spread(Cell(0, <<"0", ".", "0", "5">>),
                                Spread(Cell(1, <<"9", "0", "0">>), serial)) }
                  ELSE {})
    IN  IF n = 0 THEN {NoCells}
        ELSE {Spread(rowCells, others) :
                 rowCells \in LateRowCells, others \in LateCells(n - 1)}

InitRows ==
    /\ worksheet \in {Spread(MarkerRow(20, 3, "plain", 1, 3), dataCells) :
                          dataCells \in LateCells(MaxLateRows)}
    /\ nestPositions = <<>>
    /\ headerRow = 0
    /\ results = <<>>
    /\ rawRows = <<>>
    /\ techformData = <<>>
    /\ eclipseData = <<>>
    /\ merged = <<>>
    /\ unmatchedCount = 0
    /\ airgapPoints = <<>>
    /\ pc = "sheet"
    /\ loading = FALSE
    /\ IdleNormalize
    /\ IdleChart
    /\ IdleApp

----------------------------------------------------------------------------
(* The probe file: the row mapping of parseTechformFile and parseCSVFile.  *)
(* A data row is its part cell and its serial cell; a cell is the text     *)
(* String(value) and whether the value is a number; the empty text is the  *)
(* empty or absent cell. The measurement columns P..W are absent.          *)

\* the serial of a row: the canonical text of a positive integer cell, else
\* of the positive integer its digits spell, else ''
ProbeSerial(serialRaw) ==
    IF serialRaw.text = <<>> THEN <<>>
    ELSE LET serialStr == Trim(serialRaw.text)
             serialNum == ToNumber(serialStr)
             cleanedSerial == SelectSeq(serialStr, IsDigit)
         IN  IF ~serialNum.nan /\ IsInteger(serialNum.v) /\ serialNum.v > 0
             THEN NumberToString(serialNum.v \div 100)
             ELSE IF cleanedSerial # <<>> /\ DigitsToNumber(cleanedSerial) > 0
             THEN NumberToString(DigitsToNumber(cleanedSerial))
             ELSE <<>>

\* the part of a row: the code of the slot number found in the cell (the
\* number itself, else the first digit 1..8 standing as a word of its own,
\* else parseInt), else the upper-cased text if it is a valid code, else
\* the text as it is
ProbePart(partValue) ==
    IF partValue.text = <<>> THEN <<>>
    ELSE LET partValueStr == Trim(partValue.text)
             IsWordChar(c) ==
                 IsDigit(c) \/ c = "_" \/ \E k \in 1..26 : c \in {Letters[k], LowerLetters[k]}
             numMatch ==
                 {i \in 1..Len(partValueStr) :
                     /\ partValueStr[i] \in {"1", "2", "3", "4", "5", "6", "7", "8"}
                     /\ (i = 1 \/ ~IsWordChar(partValueStr[i - 1]))
                     /\ (i = Len(partValueStr) \/ ~IsWordChar(partValueStr[i + 1]))}
             unsigned == IF partValueStr # <<>> /\ Head(partValueStr) \in {"-", "+"}
                         THEN Tail(partValueStr) ELSE partValueStr
             parsed == IF DigitPrefix(unsigned) = <<>> THEN 0
                       ELSE IF partValueStr # <<>> /\ Head(partValueStr) = "-"
                       THEN 0 - DigitsToNumber(DigitPrefix(unsigned))
                       ELSE DigitsToNumber(DigitPrefix(unsigned))
             nestNum == IF partValue.isNumber THEN ToNumber(partValue.text).v
                        ELSE IF numMatch # {}
                        THEN Whole(DigitsToNumber(
                                 <<partValueStr[CHOOSE i \in numMatch :
                                                    \A other \in numMatch : i <= other]>>))
                        ELSE IF parsed >= 1 /\ parsed <= 8 THEN Whole(parsed)
                        ELSE 0
             upperPart == [i \in 1..Len(partValueStr) |->
                              IF \E k \in 1..26 : LowerLetters[k] = partValueStr[i]
                              THEN Letters[CHOOSE k \in 1..26 :
                                               LowerLetters[k] = partValueStr[i]]
                              ELSE partValueStr[i]]
         IN  IF PartOfNest(nestNum) # <<>> THEN PartOfNest(nestNum)
             ELSE IF Includes(VALID_PARTS, upperPart) THEN upperPart
             ELSE partValueStr

\* dataRows.map(...).filter(...): the rows with a serial and a part; the
\* cells of a CSV file are all strings
ParseProbeFile ==
    /\ pc = "probe"
    /\ \E csv \in BOOLEAN :
          LET parsed ==
                  [index \in 1..Len(rawRows) |->
                      [TechformRecord(
                           ProbeSerial(rawRows[index].serial),
                           ProbePart([rawRows[index].part EXCEPT
                                          !.isNumber = @ /\ ~csv]),
                           NoCols)
                       EXCEPT !.rawRow = rawRows[index]]]
              Kept(item) == Trim(item.serial) # <<>> /\ Trim(item.part) # <<>>
          IN  techformData' = SelectSeq(parsed, Kept)
    /\ pc' = "probeParsed"
    /\ UNCHANGED <<rawRows, worksheet, nestPositions, headerRow, results, eclipseData,
                   merged, unmatchedCount, airgapPoints, loading, normVars, chartVars,
                   appVars>>

\* the rows: one of the cells is a plain one ("6", "123"), the other any
\* of the part cells "6", " 6 ", "rrl", "RRL", "abc", "3.5", "-5", "12",
\* "05", "5a", " ", "", the numbers 6, 3.5, 9, or any of the serial cells
\* "123", "0123", " 77 ", "-5", "0.5", "A5", "abc", "0", "12.0", "", the
\* number 123
InitProbe ==
    LET Str(text) == [isNumber |-> FALSE, text |-> text]
        Number(text) == [isNumber |-> TRUE, text |-> text]
        PartCells ==
            { Str(<<"6">>), Str(<<" ", "6", " ">>), Str(<<"r", "r", "l">>),
              Str(<<"R", "R", "L">>), Str(<<"a", "b", "c">>), Str(<<"3", ".", "5">>),
              Str(<<"-", "5">>), Str(<<"1", "2">>), Str(<<"0", "5">>), Str(<<"5", "a">>),
              Str(<<" ">>), Str(<<>>),
              Number(<<"6">>), Number(<<"3", ".", "5">>), Number(<<"9">>) }
        SerialCells ==
            { Str(<<"1", "2", "3">>), Str(<<"0", "1", "2", "3">>), Str(<<" ", "7", "7", " ">>),
              Str(<<"-", "5">>), Str(<<"0", ".", "5">>), Str(<<"A", "5">>),
              Str(<<"a", "b", "c">>), Str(<<"0">>), Str(<<"1", "2", ".", "0">>), Str(<<>>),
              Number(<<"1", "2", "3">>) }
        Rows == {[part |-> p, serial |-> Str(<<"1", "2", "3">>)] : p \in PartCells}
                \cup {[part |-> Str(<<"6">>), serial |-> x] : x \in SerialCells}
    IN  /\ rawRows \in SeqsUpTo(Rows, MaxProbeRows)
        /\ worksheet = <<>>
        /\ nestPositions = <<>>
        /\ headerRow = 0
        /\ results = <<>>
        /\ techformData = <<>>
        /\ eclipseData = <<>>
        /\ merged = <<>>
        /\ unmatchedCount = 0
        /\ airgapPoints = <<>>
        /\ pc = "probe"
        /\ loading = FALSE
        /\ IdleNormalize
        /\ IdleChart
        /\ IdleApp

----------------------------------------------------------------------------
(* Specifications *)

SpecNormalize ==
    InitNormalize /\ [][NormalizeSerial]_vars

NextPipeline == MergeData \/ ExtractAirgapValues \/ ToTidyFormat \/ StorePoints

SpecMerge ==
    InitMerge /\ [][NextPipeline]_vars

SpecTidy ==
    InitTidy /\ [][NextPipeline]_vars

SpecFallback ==
    InitFallback /\ [][NextPipeline]_vars

SpecParse ==
    InitParse /\ [][handleFilesSelected \/ ParseFiles \/ NextPipeline]_vars

NextMounted ==
    \/ SetFilterThreshold({<<".", "4">>})
    \/ addComparisonFilter
    \/ removeComparisonFilter
    \/ updateComparisonFilter({<<".", "1">>})
    \/ toggleAirgap
    \/ setCurrentState

SpecAsync ==
    InitAsync /\ [][SelectFiles \/ ProbeParsed \/ FixtureParsed \/ GenerateDashboard]_vars

SpecMounted ==
    InitMounted /\ [][NextMounted]_vars

SpecLocate ==
    InitLocate /\ [][ParseCheckedFixtureSheet]_vars

SpecSheet ==
    InitSheet /\ [][ParseCheckedFixtureSheet]_vars

SpecRows ==
    InitRows /\ [][ParseCheckedFixtureSheet]_vars

SpecProbe ==
    InitProbe /\ [][ParseProbeFile]_vars

SpecThreshold ==
    InitThreshold /\ [][SetFilterThreshold(ThresholdTexts)]_vars

NextComparison ==
    \/ SetFilterThreshold({<<".", "4">>})
    \/ addComparisonFilter
    \/ removeComparisonFilter
    \/ updateComparisonFilter(MarginTexts)
    \/ toggleAirgap

SpecComparison ==
    InitComparison /\ [][NextComparison]_vars

\* thresholds 0.2 and 0.4: a unit can exceed the threshold of two positions
SpecOverall ==
    InitComparison
    /\ [][\/ SetFilterThreshold({<<".", "2">>, <<".", "4">>})
          \/ addComparisonFilter
          \/ removeComparisonFilter
          \/ updateComparisonFilter(MarginTexts)
          \/ toggleAirgap]_vars

----------------------------------------------------------------------------
(* C5: normalizeSerial is idempotent on every string: applying it to its   *)
(* own result changes nothing; an all-digit string loses its leading zeros *)
(* ("007" -> "7") and any other string is only trimmed (" A1 " -> "A1").   *)

C5_NormalizeIdempotent ==
    /\ Len(normalized) = 2 => normalized[2] = normalized[1]
    /\ Len(normalized) >= 1 =>
          LET str == Trim(serialInput) IN
          IF AllDigits(str)
          THEN /\ AllDigits(normalized[1])
               /\ DigitsToNumber(normalized[1]) = DigitsToNumber(str)
               /\ (Len(normalized[1]) > 1 => normalized[1][1] # "0")
          ELSE normalized[1] = str
    /\ (serialInput = <<"0", "0", "7">> /\ Len(normalized) >= 1)
          => normalized[1] = <<"7">>
    /\ (serialInput = <<" ", "A", " ">> /\ Len(normalized) >= 1)
          => normalized[1] = <<"A">>

C5_Witness ==
    /\ serialInput = <<"0", "0", "7">>
    /\ normalized = <<<<"7">>, <<"7">>>>

----------------------------------------------------------------------------
(* Reconciliation, stated from the inputs *)

ProbeKey(t) == JoinKey(normalizeSerial(t.serial), t.part)

\* keys of the probe lookup: probe records whose serial normalises non-empty
ProbeLookupKeys ==
    {ProbeKey(techformData[i]) :
        i \in {j \in 1..Len(techformData) :
                   normalizeSerial(techformData[j].serial) # <<>>}}

\* the probe record the lookup holds for a key: the last one in input order
ProbeFor(key) ==
    techformData[Max({i \in 1..Len(techformData) :
                        /\ normalizeSerial(techformData[i].serial) # <<>>
                        /\ ProbeKey(techformData[i]) = key})]

ShouldMerge(e) ==
    /\ Includes(VALID_PARTS, e.part)
    /\ normalizeSerial(e.serial) # <<>>
    /\ ProbeKey(e) \in ProbeLookupKeys

\* the fixture records that match, in input order
MatchedFixtures == SelectSeq(eclipseData, ShouldMerge)

MatchedProbeKeys == {ProbeKey(MatchedFixtures[i]) : i \in 1..Len(MatchedFixtures)}

Merged == pc \in {"merged", "extracted", "tidy"}

(* C1: unmatchedCount is the number of probe records minus the number of   *)
(* distinct probe (serial, part) keys matched by at least one fixture      *)
(* record; a probe record matched by several sheets counts once.           *)
C1_UnmatchedCount ==
    Merged => unmatchedCount = Len(techformData) - Cardinality(MatchedProbeKeys)

(* C2: every merged record has the serial and part of the matched probe    *)
(* record, also when the fixture spells the serial differently; the other  *)
(* conflicting fields (sourceFile, sheetName, rawRow) are the fixture's.   *)
C2_IdentityFromProbe ==
    Merged =>
        /\ Len(merged) = Len(MatchedFixtures)
        /\ \A i \in 1..Len(merged) :
              LET e == MatchedFixtures[i]
                  t == ProbeFor(ProbeKey(e))
              IN  /\ merged[i].serial = t.serial
                  /\ merged[i].part = t.part
                  /\ merged[i].sourceFile = e.sourceFile
                  /\ merged[i].sheetName = e.sheetName
                  /\ merged[i].rawRow = e.rawRow

(* C3: mergeData emits exactly one merged record per fixture record with a *)
(* valid part, a non-empty normalised serial and a key in the probe        *)
(* lookup, in input order, and nothing for any other fixture record; so    *)
(* merged is no longer than the fixture list and every merged record's key *)
(* is a key of some probe record.                                          *)
C3_OneMergedPerMatchedFixture ==
    Merged =>
        /\ Len(merged) = Len(MatchedFixtures)
        /\ Len(merged) <= Len(eclipseData)
        /\ \A i \in 1..Len(merged) :
              /\ merged[i].sourceFile = MatchedFixtures[i].sourceFile
              /\ merged[i].sheetName = MatchedFixtures[i].sheetName
              /\ merged[i].fixtureMeasurement = MatchedFixtures[i].fixtureMeasurement
              /\ ProbeKey(merged[i]) \in ProbeLookupKeys
              /\ \E j \in 1..Len(techformData) :
                    ProbeKey(techformData[j]) = ProbeKey(merged[i])

C3_Witness ==
    /\ pc = "merged"
    /\ Len(eclipseData) = 2
    /\ Len(merged) = 1
    /\ ~ShouldMerge(eclipseData[1])
    /\ ShouldMerge(eclipseData[2])

\* the all-digit string without its leading zeros
RECURSIVE DropLeadingZeros(_)
DropLeadingZeros(s) ==
    IF s # <<>> /\ Head(s) = "0" THEN DropLeadingZeros(Tail(s)) ELSE s

DifferOnlyInLeadingZeros(a, b) ==
    /\ AllDigits(a)
    /\ AllDigits(b)
    /\ DropLeadingZeros(a) = DropLeadingZeros(b)

(* C4: fixture serial "000123" and probe serial "123" with the same valid  *)
(* part merge into exactly one record; two all-digit serials that differ   *)
(* only in leading zeros have the same join key.                           *)
C4_LeadingZerosMerge ==
    /\ \A i \in 1..Len(techformData) : \A j \in 1..Len(eclipseData) :
          (/\ DifferOnlyInLeadingZeros(techformData[i].serial, eclipseData[j].serial)
           /\ techformData[i].part = eclipseData[j].part)
          => ProbeKey(techformData[i]) = ProbeKey(eclipseData[j])
    /\ (/\ Merged
        /\ Len(techformData) = 1
        /\ Len(eclipseData) = 1
        /\ techformData[1].serial = Serial123
        /\ eclipseData[1].serial = Serial000123
        /\ techformData[1].part = eclipseData[1].part
        /\ Includes(VALID_PARTS, eclipseData[1].part))
       => Len(merged) = 1

C4_Witness ==
    /\ pc = "merged"
    /\ Len(techformData) = 1
    /\ Len(eclipseData) = 1
    /\ techformData[1].serial = Serial123
    /\ eclipseData[1].serial = Serial000123
    /\ techformData[1].part = RRL
    /\ eclipseData[1].part = RRL
    /\ Len(merged) = 1

----------------------------------------------------------------------------
(* Tidy transform, stated from the merged records *)

NonNullCount(toggle) == Cardinality({c \in DOMAIN toggle : toggle[c] # Null})

PointCount(item) == NonNullCount(item.preToggle) + NonNullCount(item.postToggle)

\* number of points of the merged records before the i-th
RECURSIVE PointsBefore(_)
PointsBefore(i) ==
    IF i <= 1 THEN 0 ELSE PointsBefore(i - 1) + PointCount(merged[i - 1])

(* C6: a merged record with k non-null pre slots and m non-null post slots *)
(* yields exactly k+m points, k 'pre' and m 'post', each carrying the      *)
(* record's fixture measurement, sourceFile and sheetName.                 *)
C6_TidyPointCount ==
    pc = "tidy" =>
        /\ Len(airgapPoints) = PointsBefore(Len(merged) + 1)
        /\ \A i \in 1..Len(merged) :
              LET k == NonNullCount(merged[i].preToggle)
                  m == NonNullCount(merged[i].postToggle)
                  first == PointsBefore(i)
              IN  \A n \in 1..(k + m) :
                    LET pt == airgapPoints[first + n] IN
                    /\ pt.state = (IF n <= k THEN "pre" ELSE "post")
                    /\ pt.position \in (IF n <= k THEN Range(PRE_TOGGLE_COLS)
                                        ELSE Range(POST_TOGGLE_COLS))
                    /\ merged[i][IF n <= k THEN "preToggle" ELSE "postToggle"][pt.position]
                          = Num(pt.value)
                    /\ \A n2 \in 1..(k + m) :
                          n2 # n => airgapPoints[first + n2].position # pt.position
                    /\ pt.measurement = merged[i].fixtureMeasurement
                    /\ pt.sourceFile = merged[i].sourceFile
                    /\ pt.sheetName = merged[i].sheetName
                    /\ pt.serial = merged[i].serial
                    /\ pt.part = merged[i].part

C6_Witness ==
    /\ pc = "tidy"
    /\ Len(merged) = 2
    /\ NonNullCount(merged[1].preToggle) = 3
    /\ NonNullCount(merged[1].postToggle) = 2
    /\ merged[1].P = Num(0)
    /\ Len(airgapPoints) = 10
    /\ airgapPoints[1].measurement = Num(2)
    /\ airgapPoints[6].measurement = Null

----------------------------------------------------------------------------
(* Rejection filter, stated from the points of the slice *)

SlicePoints == Range(allDataForPart)

UnitPoints(serial) == {p \in SlicePoints : p.serial = serial}

ShownPositions == Range(allPositions)

\* the threshold of a position as a fraction, when its text is a positive decimal
ValidThreshold(position) == parseThreshold(ThresholdText(position)).valid

ThresholdOf(position) == parseThreshold(ThresholdText(position))

(* C7: for a position with a valid threshold T > 0, a unit is in the       *)
(* position's independent rejected set iff it has a point at that position *)
(* with abs(value) > T (strictly); the reported count is the size of that  *)
(* set and the total is the number of distinct serials with a point there. *)
C7_IndependentRejection ==
    \A position \in ShownPositions :
        ValidThreshold(position) =>
            /\ \A serial \in GroupSerials :
                  serial \in rejectedSerialsByPositionIndependent(position)
                  <=> \E p \in UnitPoints(serial) :
                        /\ p.position = position
                        /\ Abs(p.value) * ThresholdOf(position).den
                              > ThresholdOf(position).num * 100
            /\ rejectionStats(position).rejected
                  = Cardinality(rejectedSerialsByPositionIndependent(position))
            /\ rejectionStats(position).total
                  = Cardinality({p.serial : p \in {q \in SlicePoints : q.position = position}})

(* C8: an enabled comparison rule (L, R, margin M > 0) rejects a unit iff  *)
(* the unit has a point at every position of L and of R and some point at  *)
(* a position of L and some point at a position of R satisfy               *)
(* abs(left) >= abs(right) + M; a unit missing a position is not rejected. *)
C8_ComparisonRule ==
    \A f \in 1..Len(comparisonFilters) : \A serial \in GroupSerials :
        LET filter == comparisonFilters[f]
            M == parseThreshold(Defined(filter.margin))
            L == Range(filter.leftAirgaps)
            R == Range(filter.rightAirgaps)
        IN  (filter.enabled /\ M.valid) =>
              (RuleRejects(filter, serialGroups(serial))
               <=> /\ \A c \in L \cup R : \E p \in UnitPoints(serial) : p.position = c
                   /\ \E pl \in UnitPoints(serial) : \E pr \in UnitPoints(serial) :
                        /\ pl.position \in L
                        /\ pr.position \in R
                        /\ Abs(pl.value) * M.den >= Abs(pr.value) * M.den + M.num * 100)

\* the units some position's threshold test or some comparison rule rejects
RejectedBySomeTest ==
    UNION {rejectedSerialsByPositionIndependent(position) : position \in ShownPositions}
    \cup comparisonRejectedSerials

\* the number of occurrences of a point in a list
Occurrences(points, p) == Cardinality({i \in 1..Len(points) : points[i] = p})

DisabledTexts ==
    { <<>>, <<"0">>, <<"0", ".", "0", "0">>, <<"0", ".", "0", "0", "0">>,
      <<"-", ".", "3">>, <<"a">> }

DisabledPosition(position) ==
    \/ position \notin DOMAIN filterThresholds
    \/ filterThresholds[position] \in DisabledTexts

(* C10: a threshold that is absent, blank, zero, negative or unparseable   *)
(* disables its position: no unit is rejected because of it, independently *)
(* or in the combined decision, and its independent rejected count is 0.   *)
C10_DisabledThreshold ==
    /\ \A position \in ShownPositions :
          DisabledPosition(position) =>
              /\ rejectedSerialsByPositionIndependent(position) = {}
              /\ rejectedSerialsByPosition(position) = {}
              /\ rejectionStats(position).rejected = 0
    /\ \A serial \in overallRejectedSerials :
          \/ serial \in comparisonRejectedSerials
          \/ \E position \in ShownPositions :
                /\ ~DisabledPosition(position)
                /\ \E p \in UnitPoints(serial) : p.position = position
    /\ (\A position \in ShownPositions : DisabledPosition(position))
          => (overallRejectedSerials = comparisonRejectedSerials
              /\ (comparisonFilters = <<>> => filteredData # <<>> \/ allDataForPart = <<>>))

C10_Witness ==
    /\ Len(allDataForPart) = 3
    /\ "P" \in DOMAIN filterThresholds
    /\ "Q" \in DOMAIN filterThresholds
    /\ filterThresholds["P"] = <<"0">>
    /\ filterThresholds["Q"] = <<".", "3">>
    /\ \E i \in 1..3 : allDataForPart[i].position = "P" /\ allDataForPart[i].value = -50
    /\ overallRejectedSerials = {<<"2">>}

----------------------------------------------------------------------------
(* End of the pipeline *)

IsFallbackPoint(p) == p.sourceFile = "raw_airgap"

(* C11: probe-only fallback points are stored only when reconciliation     *)
(* produced zero merged records and probe records exist; whenever there is *)
(* at least one merged record the stored points are exactly the tidy       *)
(* transform of the merged records.                                        *)
C11_FallbackOnlyWithoutMerged ==
    pc = "stored" =>
        /\ (\E i \in 1..Len(airgapPoints) : IsFallbackPoint(airgapPoints[i]))
              => (Len(merged) = 0 /\ Len(techformData) > 0)
        /\ Len(merged) >= 1 => airgapPoints = toTidyFormat(merged)

\* the pre slots of the probe rows that hold a finite value of magnitude <= 0.80
BoundedPreSlots ==
    {<<i, c>> \in (1..Len(techformData)) \X Range(PRE_TOGGLE_COLS) :
        /\ Field(techformData[i], c).k = "num"
        /\ Abs(Field(techformData[i], c).v) <= 80}

SlotsLike(p) ==
    {sl \in BoundedPreSlots :
        /\ techformData[sl[1]].serial = p.serial
        /\ techformData[sl[1]].part = p.part
        /\ sl[2] = p.position
        /\ techformData[sl[1]][sl[2]].v = p.value}

(* C12: every point of the probe-only fallback has state 'pre', one of the *)
(* four pre positions, abs(value) <= 0.80, is no integer >= 1000, carries  *)
(* no reference measurement and has sourceFile 'raw_airgap'; every probe   *)
(* pre slot with a finite value of magnitude <= 0.80 yields exactly one    *)
(* such point.                                                             *)
C12_FallbackPoints ==
    LET points == techformDataToAirgapPoints(techformData) IN
    /\ \A i \in 1..Len(points) :
          /\ points[i].state = "pre"
          /\ points[i].position \in {"P", "Q", "R", "S"}
          /\ Abs(points[i].value) <= 80
          /\ ~(points[i].value % 100 = 0 /\ points[i].value >= 100000)
          /\ points[i].measurement = Null
          /\ points[i].sourceFile = "raw_airgap"
          /\ Cardinality({j \in 1..Len(points) : points[j] = points[i]})
                = Cardinality(SlotsLike(points[i]))
    /\ Len(points) = Cardinality(BoundedPreSlots)
    /\ (pc = "stored" /\ Len(merged) = 0) => airgapPoints = points

C12_Witness ==
    /\ pc = "stored"
    /\ Len(techformData) = 2
    /\ techformData[1]["P"] = Num(-80)
    /\ techformData[1]["Q"] = Num(5)
    /\ techformData[1]["T"] = Num(5)
    /\ techformData[2]["P"] = Num(81)
    /\ techformData[2]["Q"] = Null
    /\ Len(airgapPoints) = 2
    /\ airgapPoints[1].value = -80

PointKey(p) == <<p.serial, p.part, p.position, p.state>>

(* C13: the tidy point list produced from merged records holds at most one *)
(* point per (serial, part, position, state), also when one probe record   *)
(* is matched by several fixture sheets.                                   *)
C13_OnePointPerKey ==
    pc = "tidy" =>
        \A i, j \in 1..Len(airgapPoints) :
            PointKey(airgapPoints[i]) = PointKey(airgapPoints[j]) => i = j

ProbeDataAbsent ==
    \/ Len(rawAirgapFiles) = 0
    \/ rawAirgapFiles[1].kind \in {"unreadable", "empty"}

\* the records of the sheets that parse, of all selected fixture files
RECURSIVE ParsedSheetRecords(_)
ParsedSheetRecords(sheets) ==
    IF sheets = <<>> THEN <<>>
    ELSE (IF Head(sheets).kind = "rows" THEN Head(sheets).records ELSE <<>>)
         \o ParsedSheetRecords(Tail(sheets))

RECURSIVE ParsedFileRecords(_)
ParsedFileRecords(files) ==
    IF files = <<>> THEN <<>>
    ELSE (IF Head(files).kind = "workbook" THEN ParsedSheetRecords(Head(files).sheets)
          ELSE <<>>) \o ParsedFileRecords(Tail(files))

(* C14: a run ends in the error state only when probe data is absent or    *)
(* unparseable; a fixture file or sheet that fails to parse or has no      *)
(* markers contributes zero records and the run goes on with the other     *)
(* fixture files and sheets, merges and produces points.                   *)
C14_ErrorOnlyWithoutProbeData ==
    /\ (pc = "error" \/ error # "null") => ProbeDataAbsent
    /\ pc \in {"parsed", "merged", "extracted", "tidy", "stored"}
          => eclipseData = ParsedFileRecords(checkedFixtureFiles)

\* margin texts that are blank, no number, zero or negative
InvalidMarginTexts == { <<>>, <<"a">>, <<"0">>, <<"-", ".", "1">> }

InvalidRule(filter) ==
    \/ filter.margin \in InvalidMarginTexts
    \/ filter.leftAirgaps = <<>>
    \/ filter.rightAirgaps = <<>>

\* the rules of the chart, and each of them with one side emptied
RuleVariants ==
    UNION {{comparisonFilters[f],
            [comparisonFilters[f] EXCEPT !.leftAirgaps = <<>>],
            [comparisonFilters[f] EXCEPT !.rightAirgaps = <<>>]} :
           f \in 1..Len(comparisonFilters)}

(* C15: a comparison rule with a non-numeric, blank or non-positive margin *)
(* or an empty left or right position set rejects no unit, and the         *)
(* overall-rejected set is the one obtained without that rule.             *)
C15_InvalidRuleDisabled ==
    /\ \A filter \in RuleVariants :
          InvalidRule(filter) =>
              \A serial \in GroupSerials : ~RuleRejects(filter, serialGroups(serial))
    /\ overallRejectedSerials =
          {serial \in GroupSerials :
              \/ FirstFailingPosition(serialGroups(serial), allPositions) # <<>>
              \/ \E f \in 1..Len(comparisonFilters) :
                    /\ ~InvalidRule(comparisonFilters[f])
                    /\ RuleRejects(comparisonFilters[f], serialGroups(serial))}

C15_Witness ==
    /\ Len(comparisonFilters) = 1
    /\ comparisonFilters[1].enabled
    /\ comparisonFilters[1].margin = <<"0">>
    /\ comparisonFilters[1].leftAirgaps = <<"P">>
    /\ comparisonFilters[1].rightAirgaps = <<"Q">>
    /\ \E i, j \in 1..Len(allDataForPart) :
          /\ allDataForPart[i].serial = <<"1">>
          /\ allDataForPart[j].serial = <<"1">>
          /\ allDataForPart[i].position = "P"
          /\ allDataForPart[j].position = "Q"
          /\ i < j
          /\ Abs(allDataForPart[i].value) > Abs(allDataForPart[j].value)
    /\ overallRejectedSerials = {}

(* C16: changing filters (thresholds, comparison rules, pre/post toggle)   *)
(* never modifies the tidy points or the merged records: every step leaves *)
(* the input points, the stored points and the merged records as they      *)
(* were, so the filtered result is a function of the current thresholds,   *)
(* rules and toggle alone.                                                 *)
C16_FiltersLeaveInputs ==
    [][/\ data' = data
       /\ airgapPoints' = airgapPoints
       /\ merged' = merged
       /\ techformData' = techformData
       /\ eclipseData' = eclipseData]_vars

C16_Witness ==
    /\ pc = "stored"
    /\ currentState = "post"
    /\ "P" \in DOMAIN filterThresholds
    /\ Len(comparisonFilters) = 1
    /\ comparisonFilters[1].margin = <<".", "1">>
    /\ Len(comparisonFilters[1].leftAirgaps) = 2
    /\ Len(merged) = 2
    /\ data = toTidyFormat(merged)
    /\ Len(data) = 6

----------------------------------------------------------------------------
(* Marker scan, stated from the cells of the worksheet *)

SlotCodes == {Whole(k) : k \in 1..8}

(* C17: every key of the map returned by findNestPositions is one of the   *)
(* eight integer codes 1..8, whatever the cells of the scan window hold    *)
(* (bracketed text, plain numbers, decimals such as 3.5, text containing   *)
(* digits); a cell whose candidate is out of range adds no marker.         *)
C17_KeysAreSlotCodes ==
    pc = "sheetParsed" =>
        \A i \in 1..Len(nestPositions) : nestPositions[i].key \in SlotCodes

\* the slot code read from a populated cell, 0 when the cell is no marker
MarkerCode(cellAddress) ==
    LET n == NestNumOfCell(worksheet[cellAddress])
    IN  IF ~n.isNull /\ ~n.nan /\ n.v \in SlotCodes THEN n.v ELSE 0

\* the marker cells of the scan window: rows 10..20, first 50 columns
Markers ==
    {a \in DOMAIN worksheet :
        (a[2] + 1) \in 10..20 /\ a[1] \in 0..49 /\ MarkerCode(a) # 0}

\* scan order: by row, then by column
ScanBefore(a, b) == a[2] < b[2] \/ (a[2] = b[2] /\ a[1] < b[1])

LocatedUpTo(row) == {MarkerCode(a) : a \in {m \in Markers : m[2] + 1 <= row}}

\* the row after which all eight codes are located, else the last row
StopRow ==
    IF \E row \in 10..20 : LocatedUpTo(row) = SlotCodes
    THEN CHOOSE row \in 10..20 :
             /\ LocatedUpTo(row) = SlotCodes
             /\ \A earlier \in 10..(row - 1) : LocatedUpTo(earlier) # SlotCodes
    ELSE 20

ScannedMarkers(code) == {m \in Markers : m[2] + 1 <= StopRow /\ MarkerCode(m) = code}

FirstMarker(S) == CHOOSE a \in S : \A b \in S : a = b \/ ScanBefore(a, b)

\* the first marker of the code, or the first one of row 13 if the first
\* marker lies in an earlier row
ExpectedMarker(code) ==
    LET inRow13 == {m \in ScannedMarkers(code) : m[2] + 1 = 13}
    IN  IF inRow13 # {} THEN FirstMarker(inRow13)
        ELSE FirstMarker(ScannedMarkers(code))

(* C18: findNestPositions records for each code the column of its first    *)
(* accepted marker in scan order (rows 10..20, columns left to right),     *)
(* except that a marker of row 13 replaces a column recorded from an       *)
(* earlier row; a later marker in any other row never replaces it, and the *)
(* scan stops once all eight codes are located.                            *)
C18_FirstMarkerOrRow13 ==
    pc = "sheetParsed" =>
        \A code \in SlotCodes :
            /\ MapHas(nestPositions, code) <=> ScannedMarkers(code) # {}
            /\ \A i \in 1..Len(nestPositions) :
                  nestPositions[i].key = code =>
                      columnLetterToIndex(nestPositions[i].value)
                          = ExpectedMarker(code)[1]

----------------------------------------------------------------------------
(* Sheet parser, stated from the cells of the worksheet *)

\* the rows of the sheet that hold a cell
CandidateRows == {a[2] + 1 : a \in DOMAIN worksheet}

\* marker columns of the row whose numeric cell equals the expected code
MatchCount(row) == NestsInRow(worksheet, row, nestPositions)

(* C19: parseCheckedFixtureSheet selects as header row the candidate row   *)
(* with the highest number of marker columns whose numeric cell equals the *)
(* expected code, provided that number is at least 3, whether or not the   *)
(* row lies in the scan window 10..20; data starts on the row below.       *)
C19_HeaderRowHasMostMatches ==
    (/\ pc = "sheetParsed"
     /\ Len(nestPositions) > 0
     /\ \E row \in CandidateRows : MatchCount(row) >= 3)
        => /\ MatchCount(headerRow) >= 3
           /\ \A row \in CandidateRows : MatchCount(row) <= MatchCount(headerRow)

\* the cell one column right of marker i on a row, validated as a serial
SerialRightOf(row, i) ==
    ValidateSerial(
        getCellValue(worksheet,
                     indexToColumnLetter(columnLetterToIndex(nestPositions[i].value) + 1),
                     row))

\* the (row, marker) pairs below the header row whose cell one column right
\* of the marker holds a valid serial, for markers of a part
SerialPairs ==
    {pair \in ((headerRow + 1)..Max(CandidateRows \cup {headerRow + 1}))
                  \X (1..Len(nestPositions)) :
        /\ SerialRightOf(pair[1], pair[2]).found
        /\ PartOfNest(nestPositions[pair[2]].key) # <<>>}

\* the records with the part and serial, and the pairs that yield them
RecordsWith(prt, serial) ==
    {j \in 1..Len(results) : results[j].part = prt /\ results[j].serial = serial}

PairsWith(prt, serial) ==
    {pair \in SerialPairs :
        /\ PartOfNest(nestPositions[pair[2]].key) = prt
        /\ SerialRightOf(pair[1], pair[2]).serial = serial}

(* C20: every record parseCheckedFixtureSheet emits for a (row, marker)    *)
(* pair has its serial read from the cell exactly one column right of the  *)
(* marker column on that row; when that cell is empty or fails the serial  *)
(* validation the pair yields no record and no other offset is tried: the  *)
(* records with a part and serial are no more than the pairs whose         *)
(* right-hand cell reads as that serial.                                   *)
C20_SerialRightOfMarker ==
    pc = "sheetParsed" =>
        \A j \in 1..Len(results) :
            Cardinality(RecordsWith(results[j].part, results[j].serial))
                <= Cardinality(PairsWith(results[j].part, results[j].serial))

\* B14 = "0123" is read as the serial 123 of slot 1 while C14 = "123",
\* the measurement cell of slot 2 whose serial cell D14 is empty, gives no record
C20_Witness ==
    /\ pc = "sheetParsed"
    /\ headerRow = 13
    /\ <<1, 13>> \in DOMAIN worksheet
    /\ worksheet[<<1, 13>>] = <<"0", "1", "2", "3">>
    /\ <<2, 13>> \in DOMAIN worksheet
    /\ Len(results) = 1
    /\ results[1].serial = <<"1", "2", "3">>
    /\ results[1].part = VALID_PARTS[1]

----------------------------------------------------------------------------
(* C21 *)

\* C21: every record parseCheckedFixtureSheet emits, on an ordinary sheet
\* and on a 'new gauge' sheet alike, stores a reference measurement that is
\* null or a number of magnitude at most 0.80
C21_ReferenceWithinBound ==
    pc = "sheetParsed" =>
        \A j \in 1..Len(results) :
            \/ results[j].fixtureMeasurement = Null
            \/ /\ results[j].fixtureMeasurement.k = "num"
               /\ Abs(results[j].fixtureMeasurement.v) <= 80

\* on the sheet "New Gauge", B21 = "250" with no decimal neighbour is
\* stored as 250 / 1000 = 0.25 for the serial 21
C21_Witness ==
    /\ pc = "sheetParsed"
    /\ <<1, 20>> \in DOMAIN worksheet
    /\ worksheet[<<1, 20>>] = <<"2", "5", "0">>
    /\ Len(results) >= 1
    /\ results[1].sheetName = <<"N", "e", "w", " ", "G", "a", "u", "g", "e">>
    /\ results[1].serial = <<"2", "1">>
    /\ results[1].fixtureMeasurement = Num(25)

----------------------------------------------------------------------------
(* C22 *)

\* no marker column holds a value in row r
NoMarkerValue(r) ==
    \A i \in 1..Len(nestPositions) :
        LET testValue == getCellValue(worksheet, nestPositions[i].value, r)
        IN  ~testValue.defined \/ testValue.text = <<>>

\* the serials of row r that are valid and stand beside a slot with a part
RowSerials(r) ==
    {Trim(ValidateSerial(SerialCell(worksheet, nestPositions[i].value, r)).serial) :
        i \in {k \in 1..Len(nestPositions) :
                 /\ ValidateSerial(SerialCell(worksheet, nestPositions[k].value, r)).found
                 /\ PartOfNest(nestPositions[k].key) # <<>>}}

\* C22: the row scan stops before row 1000 only after three consecutive
\* rows without a value in any marker column: a data row with a valid
\* serial is read unless such a run starts at or above it
C22_StopsOnlyAfterEmptyRun ==
    pc = "sheetParsed" /\ Len(nestPositions) > 0 =>
        \A r \in (headerRow + 1)..(20 + MaxLateRows) :
            \A serial \in RowSerials(r) :
                \/ \E j \in 1..Len(results) : results[j].serial = serial
                \/ \E q \in (headerRow + 1)..r :
                       NoMarkerValue(q) /\ NoMarkerValue(q + 1) /\ NoMarkerValue(q + 2)

----------------------------------------------------------------------------
(* C23 *)

\* the cell reads as a positive integer
PositiveIntegerCell(cell) ==
    /\ Trim(cell.text) # <<>>
    /\ ~ToNumber(cell.text).nan
    /\ IsInteger(ToNumber(cell.text).v)
    /\ ToNumber(cell.text).v > 0

\* C23: every probe record kept has as serial the canonical decimal text of
\* a positive integer and a non-empty part, and a row whose serial cell is
\* not a positive integer (non-numeric, non-positive such as "-5", or
\* unparseable) is dropped
C23_SerialCellPositiveInteger ==
    pc = "probeParsed" =>
        \A j \in 1..Len(techformData) :
            /\ AllDigits(techformData[j].serial)
            /\ Head(techformData[j].serial) # "0"
            /\ techformData[j].part # <<>>
            /\ PositiveIntegerCell(techformData[j].rawRow.serial)

----------------------------------------------------------------------------
(* C24 *)

\* the cell is one of the slot numbers 1..8
SlotCell(cell) ==
    \E k \in DOMAIN NEST_TO_PART_MAP : Trim(cell.text) = NumberToString(k)

\* C24: a part cell that is a slot number 1..8 resolves to the code of the
\* slot table, any other part cell becomes its upper-cased text, and a cell
\* that is neither a slot number nor a valid code never becomes a valid code
C24_PartResolution ==
    pc = "probeParsed" =>
        \A j \in 1..Len(techformData) :
            LET cell == techformData[j].rawRow.part
                upper == [i \in 1..Len(Trim(cell.text)) |->
                             IF \E k \in 1..26 : LowerLetters[k] = Trim(cell.text)[i]
                             THEN Letters[CHOOSE k \in 1..26 :
                                              LowerLetters[k] = Trim(cell.text)[i]]
                             ELSE Trim(cell.text)[i]]
            IN  IF SlotCell(cell)
                THEN techformData[j].part
                         = NEST_TO_PART_MAP[CHOOSE k \in DOMAIN NEST_TO_PART_MAP :
                                                Trim(cell.text) = NumberToString(k)]
                ELSE techformData[j].part = upper

----------------------------------------------------------------------------
(* C25 *)

\* what a run on the selected files stores, if it stores anything
SelectionStores ==
    /\ Len(rawAirgapFiles) > 0
    /\ Len(checkedFixtureFiles) > 0
    /\ ~parseTechformFile(rawAirgapFiles[1]).threw
    /\ ~parseAllCheckedFixtureFiles(checkedFixtureFiles).threw

SelectionResult ==
    LET td == parseTechformFile(rawAirgapFiles[1]).data
        mergeResult == mergeData(td, parseAllCheckedFixtureFiles(checkedFixtureFiles).data)
        withAirgap == extractAirgapValues(mergeResult.merged)
    IN  [mergedData |-> withAirgap,
         airgapPoints |-> StoredPoints(toTidyFormat(withAirgap), td, withAirgap),
         unmatchedCount |-> mergeResult.unmatchedCount]

\* C25: once every parseFiles run has completed, the merged data, the
\* points and the unmatched count are those of the most recent selection
\* (the merged data and the points are empty if that selection stores
\* nothing): the results of an earlier selection neither overwrite them nor
\* come back after the reset of handleFilesSelected
C25_LatestSelectionWins ==
    pc = "app" /\ inFlight = <<>> =>
        IF SelectionStores
        THEN /\ merged = SelectionResult.mergedData
             /\ airgapPoints \in {SelectionResult.airgapPoints,
                                   toTidyFormat(SelectionResult.mergedData)}
             /\ unmatchedCount = SelectionResult.unmatchedCount
        ELSE merged = <<>> /\ airgapPoints = <<>>

----------------------------------------------------------------------------
(* C26 *)

\* C26: the loading flag is true in every state in which some parseFiles
\* run has started and not finished, overlapping runs included
C26_LoadingWhileInFlight ==
    pc = "app" /\ inFlight # <<>> => loading = TRUE

----------------------------------------------------------------------------
(* C28 *)

\* C28: for any thresholds and rules, the overall-rejected units are the
\* union over all positions of the independently rejected units together
\* with the comparison-rejected units; the break of the combined loop
\* changes the attribution only
C28_OverallIsUnion ==
    overallRejectedSerials
        = UNION {rejectedSerialsByPositionIndependent(allPositions[i]) :
                    i \in 1..Len(allPositions)}
          \cup comparisonRejectedSerials

\* unit 1 exceeds the thresholds of P and of Q and is rejected by a rule:
\* the combined loop attributes it to P only, and it is rejected overall
C28_Witness ==
    /\ <<"1">> \in rejectedSerialsByPositionIndependent("P")
    /\ <<"1">> \in rejectedSerialsByPositionIndependent("Q")
    /\ <<"1">> \in comparisonRejectedSerials
    /\ <<"1">> \notin rejectedSerialsByPosition("Q")
    /\ <<"1">> \in overallRejectedSerials

----------------------------------------------------------------------------
(* C27 *)

\* C27: a click on 'Generate Dashboard' after a completed parse leaves the
\* displayed points as the pipeline stored them, the probe-only fallback
\* points included
C27_RegenerationKeepsPoints ==
    [][GenerateDashboard /\ inFlight = <<>> => airgapPoints' = airgapPoints]_vars

----------------------------------------------------------------------------
(* C29 *)

\* C29: no point of the filtered output at a position with a valid
\* threshold has a magnitude above that threshold, also when a unit has
\* several points at the position
C29_KeptPointsWithinThreshold ==
    \A i \in 1..Len(filteredData) :
        LET thresholdNum == parseThreshold(ThresholdText(filteredData[i].position))
        IN  thresholdNum.valid => ~ExceedsThreshold(filteredData[i].value, thresholdNum)

----------------------------------------------------------------------------
(* C30 *)

\* the probe records with the normalized (serial, part) key of a record
SameKey(record) ==
    {i \in 1..Len(techformData) :
        /\ normalizeSerial(techformData[i].serial) # <<>>
        /\ JoinKey(normalizeSerial(techformData[i].serial), techformData[i].part)
               = JoinKey(normalizeSerial(record.serial), record.part)}

\* C30: when several probe records share a normalized (serial, part) key,
\* every merged record of that key carries the measurement columns of the
\* last of them in input order
C30_LastDuplicateWins ==
    pc = "merged" =>
        \A j \in 1..Len(merged) :
            /\ SameKey(merged[j]) # {}
            /\ \A col \in Range(PRE_TOGGLE_COLS) \cup Range(POST_TOGGLE_COLS) :
                   Field(merged[j], col) = Field(techformData[Max(SameKey(merged[j]))], col)

\* the probe records 123 (P = 0.05) and 000123 (no P) share the key 123|RRL:
\* the merged record has no P
C30_Witness ==
    /\ pc = "merged"
    /\ Len(techformData) = 2
    /\ techformData[1].serial = Serial123
    /\ techformData[2].serial = Serial000123
    /\ techformData[1].part = RRL
    /\ techformData[2].part = RRL
    /\ techformData[1]["P"] = Num(5)
    /\ techformData[2]["P"] = Null
    /\ Len(merged) = 1
    /\ merged[1]["P"] = Null

====
